---------------------------- MODULE Spec2Model ----------------------------
(***************************************************************************)
(* Model of the agentic retrieval orchestrator of rag-journal:             *)
(*   src/src/rag_journal/rag/agentic_rag.py   (AgenticRAG)                 *)
(*   src/src/rag_journal/llm/llm_client.py    (Completion Provider)        *)
(*   src/src/rag_journal/embeddings/embedder.py, database/mongodb_client.py*)
(*   src/scripts/query.py                     (the interactive caller)     *)
(*                                                                         *)
(* Text (a Python str) is a sequence of tokens, so that f-strings are      *)
(* concatenations and slices are SubSeq.  A Python dict is a record (a     *)
(* function on its keys); a missing key is a key outside DOMAIN.           *)
(***************************************************************************)
EXTENDS Integers, Sequences, FiniteSets, TLC

(***************************************************************************)
(* Bounds of the model (not program constants).                            *)
(***************************************************************************)
MaxIter == 2          \* max_iterations ranges over 0..MaxIter
MaxRuns == 1          \* runs (query/chat calls) per behaviour of Spec
MaxBatch == 2         \* tool calls in one provider response
MaxRunCalls == 2      \* tool calls the provider requests within one run
MaxSessionRuns == 6   \* chat calls per behaviour of SpecSession
MaxTurnsCfg == 4      \* max_history_turns ranges over 1..MaxTurnsCfg
MaxHistory == 24      \* turns of a history a compression method is called on
MaxShown == 3         \* turns of a session whose history a caller asks for
MaxDocs == 3          \* articles of a store a ranking pass goes over
MaxStore == 101       \* articles of a store the metadata primitives are asked of
MaxMixedRuns == 3     \* query and chat calls per behaviour of SpecMixed

(***************************************************************************)
(* Small helpers.                                                          *)
(***************************************************************************)
None == [none |-> TRUE]

Min(a, b) == IF a < b THEN a ELSE b

\* s[-k:] of Python for k > 0
LastK(s, k) == IF Len(s) <= k THEN s ELSE SubSeq(s, Len(s) - k + 1, Len(s))

\* s[:-k] of Python for k > 0
DropLastK(s, k) == IF Len(s) <= k THEN << >> ELSE SubSeq(s, 1, Len(s) - k)

\* s[:k] of Python
FirstK(s, k) == IF Len(s) <= k THEN s ELSE SubSeq(s, 1, k)

HasKey(d, k) == k \in DOMAIN d


(***************************************************************************)
(* Text.                                                                   *)
(***************************************************************************)
EmptyText == << >>

\* _get_system_prompt: one fixed text
SystemPrompt == <<"Sei un assistente intelligente ...">>

\* the fixed fallback message of the iteration cap
FallbackAnswer ==
  <<"Ho raggiunto il limite di iterazioni. Prova a riformulare la domanda.">>

\* truthiness of a Python list or of a text
Truthy(s) == Len(s) > 0

\* response['content'] or ""
OrEmpty(c) == IF Truthy(c) THEN c ELSE EmptyText

(***************************************************************************)
(* Tool Registry (_define_tools): name -> parameter name -> optional flag. *)
(***************************************************************************)
FilterParams ==
  [author |-> TRUE, date_from |-> TRUE, date_to |-> TRUE, categories |-> TRUE]

DefineTools ==
  << [name |-> "search_by_content",   parameters |-> [query |-> FALSE]],
     [name |-> "search_by_author",    parameters |-> [author |-> FALSE]],
     [name |-> "search_by_metadata",  parameters |-> FilterParams],
     [name |-> "count_articles",      parameters |-> FilterParams],
     [name |-> "get_article_details", parameters |-> [article_ids |-> FALSE]] >>

ToolNames == {DefineTools[i].name : i \in 1..Len(DefineTools)}

(***************************************************************************)
(* Document Store contents and the embedding of the query.  Dates are      *)
(* yyyymmdd numbers; an author is a sequence of characters; an embedding   *)
(* is an integer vector.                                                   *)
(***************************************************************************)
Corpus ==
  << [article_id |-> "id1", url |-> "u1", source |-> "s1",
      metadata |-> [title |-> "T1", author |-> <<"R", "o", "s", "s", "i">>,
                    publication_date |-> 20240115, categories |-> {"politica"}],
      content |-> [full_text |-> "F1"],
      embedding |-> <<3, 4>>],
     [article_id |-> "id2", url |-> "u2",
      metadata |-> [title |-> "T2", author |-> <<"B", "o", "s", "s", "i">>,
                    categories |-> {"esteri", "politica"}],
      content |-> [full_text |-> "F2"],
      embedding |-> <<4, -3>>],
     [article_id |-> "id3", url |-> "u3", source |-> "s3",
      metadata |-> [title |-> "T3", author |-> <<"R", "o", "s", "s", "i">>,
                    publication_date |-> 20240301, categories |-> {"esteri"}],
      content |-> [full_text |-> "F3"],
      embedding |-> << >>] >>

\* ArticleEmbedder.embed_text of a query text
EmbedText(query) ==
  IF Len(query) > 2 THEN <<1, 0, 0, 0>>
  ELSE IF Len(query) > 1 THEN <<1, 1>> ELSE <<1, 0>>

\* datetime.fromisoformat: a partial function; other strings raise ValueError
IsoDates ==
  [s \in {"2024-01-15", "2024-02-01", "2024-03-01"} |->
     CASE s = "2024-01-15" -> 20240115
       [] s = "2024-02-01" -> 20240201
       [] s = "2024-03-01" -> 20240301]

\* publication_date.strftime('%Y-%m-%d')
Strftime(d) ==
  IF \E s \in DOMAIN IsoDates : IsoDates[s] = d
  THEN CHOOSE s \in DOMAIN IsoDates : IsoDates[s] = d
  ELSE "yyyy-mm-dd"

\* case folding of "$options": "i"
Lower(c) ==
  CASE c = "R" -> "r" [] c = "B" -> "b" [] c = "O" -> "o"
    [] c = "S" -> "s" [] c = "I" -> "i" [] OTHER -> c

\* {"$regex": pattern, "$options": "i"} for a plain pattern: case-insensitive
\* substring match
RegexMatchI(pattern, text) ==
  \E i \in 0..(Len(text) - Len(pattern)) :
     \A j \in 1..Len(pattern) : Lower(text[i + j]) = Lower(pattern[j])


(***************************************************************************)
(* Python calls that may raise: a call returns Ret(value) or Raise(...).   *)
(***************************************************************************)
Ret(v) == [raised |-> FALSE, value |-> v]

Raise(exc, msg) == [raised |-> TRUE, exc |-> exc, str |-> msg]

\* outcomes of the external collaborators during one tool dispatch
ExtOutcomes == {"ok", "embedder_error", "db_error"}

(***************************************************************************)
(* MongoDBClient: find_by_filter, count_by_filter, get_all_articles.       *)
(***************************************************************************)
SeqToSet(s) == {s[i] : i \in 1..Len(s)}

\* does a document match a MongoDB filter document
Matches(doc, f) ==
  /\ "metadata.author" \in DOMAIN f =>
       /\ HasKey(doc.metadata, "author")
       /\ RegexMatchI(f["metadata.author"].regex, doc.metadata.author)
  /\ "metadata.publication_date" \in DOMAIN f =>
       /\ HasKey(doc.metadata, "publication_date")
       /\ HasKey(f["metadata.publication_date"], "gte") =>
            doc.metadata.publication_date >= f["metadata.publication_date"].gte
       /\ HasKey(f["metadata.publication_date"], "lte") =>
            doc.metadata.publication_date <= f["metadata.publication_date"].lte
  /\ "metadata.categories" \in DOMAIN f =>
       /\ HasKey(doc.metadata, "categories")
       /\ doc.metadata.categories \cap SeqToSet(f["metadata.categories"]) # {}
  /\ "article_id" \in DOMAIN f => doc.article_id \in SeqToSet(f["article_id"])

\* the documents of db[i..] matching f, in store order (a cursor)
RECURSIVE Cursor(_, _, _)
Cursor(db, i, f) ==
  IF i > Len(db) THEN << >>
  ELSE (IF Matches(db[i], f) THEN <<db[i]>> ELSE << >>) \o Cursor(db, i + 1, f)

\* a find that ignores its limit
FindByFilter_NoLimit(db, f, limit) == Cursor(db, 1, f)

FindByFilter(db, f, limit) ==
  LET found == Cursor(db, 1, f)
  IN  IF limit > 0 THEN FirstK(found, limit) ELSE found

CountByFilter(db, f) == Len(Cursor(db, 1, f))

GetAllArticles(db) == db


(***************************************************************************)
(* ArticleEmbedder: cosine_similarity and rank_by_similarity.  A score is  *)
(* kept exactly, as dot / sqrt(den2); den2 = 0 is the nan of a zero norm.  *)
(***************************************************************************)
RECURSIVE DotFrom(_, _, _)
DotFrom(a, b, i) ==
  IF i > Len(a) THEN 0 ELSE a[i] * b[i] + DotFrom(a, b, i + 1)

Dot(a, b) == DotFrom(a, b, 1)

CosineSimilarity(a, b) ==
  IF Len(a) # Len(b)
  THEN Raise("ValueError", <<"shapes not aligned">>)
  ELSE Ret([dot |-> Dot(a, b), den2 |-> Dot(a, a) * Dot(b, b)])

IsNaN(s) == s.den2 = 0

\* s1 > s2 on floats (false when either is nan)
ScoreGt(s1, s2) ==
  /\ ~IsNaN(s1)
  /\ ~IsNaN(s2)
  /\ \/ s1.dot >= 0 /\ s2.dot < 0
     \/ /\ s1.dot >= 0
        /\ s2.dot >= 0
        /\ s1.dot * s1.dot * s2.den2 > s2.dot * s2.dot * s1.den2
     \/ /\ s1.dot < 0
        /\ s2.dot < 0
        /\ s1.dot * s1.dot * s2.den2 < s2.dot * s2.dot * s1.den2

\* score > 0.3
AboveThreshold(s) ==
  /\ ~IsNaN(s)
  /\ s.dot > 0
  /\ 100 * s.dot * s.dot > 9 * s.den2

\* is |score| >= (2r - 1) / 2000, the lower edge of the thousandth r
AtLeastEdge(s, r) == (2 * r - 1) * (2 * r - 1) * s.den2 <= 4000000 * s.dot * s.dot

\* the largest r in lo..hi with AtLeastEdge(s, r), by bisection
RECURSIVE Nearest(_, _, _)
Nearest(s, lo, hi) ==
  IF lo = hi THEN lo
  ELSE LET mid == (lo + hi + 1) \div 2
       IN  IF AtLeastEdge(s, mid) THEN Nearest(s, mid, hi)
           ELSE Nearest(s, lo, mid - 1)

\* round(float(score), 3), in thousandths
Round3(s) ==
  LET mag == Nearest(s, 0, 1000)
  IN  IF s.dot >= 0 THEN mag ELSE 0 - mag

\* scored.sort(key=lambda x: x[2], reverse=True), as list.sort of CPython
\* does it for a list of fewer than 64 elements: reverse the list, find the
\* run at its head, insert the rest by binary search, reverse the result.
\* Every comparison is x < y on the scores, false when either is nan.
KeyLt(x, y) == ScoreGt(y[3], x[3])

Reverse(s) == [i \in 1..Len(s) |-> s[Len(s) + 1 - i]]

\* count_run: a[1..k] is a run (strictly descending when desc), extend it
RECURSIVE RunLength(_, _, _)
RunLength(a, k, desc) ==
  IF k < Len(a) /\ KeyLt(a[k + 1], a[k]) = desc
  THEN RunLength(a, k + 1, desc)
  ELSE k

CountRun(a) ==
  IF Len(a) = 1 THEN [n |-> 1, descending |-> FALSE]
  ELSE LET desc == KeyLt(a[2], a[1])
       IN  [n |-> RunLength(a, 2, desc), descending |-> desc]

\* binarysort, the search: l and r count from 0 as in listobject.c
RECURSIVE BinaryPlace(_, _, _, _)
BinaryPlace(a, pivot, l, r) ==
  IF l >= r THEN l
  ELSE LET p == l + ((r - l) \div 2)
       IN  IF KeyLt(pivot, a[p + 1]) THEN BinaryPlace(a, pivot, l, p)
           ELSE BinaryPlace(a, pivot, p + 1, r)

\* binarysort: the first start elements of a are sorted, insert the others
RECURSIVE BinarySort(_, _)
BinarySort(a, start) ==
  IF start >= Len(a) THEN a
  ELSE LET pivot == a[start + 1]
           l == BinaryPlace(a, pivot, 0, start)
       IN  BinarySort(SubSeq(a, 1, l) \o <<pivot>> \o SubSeq(a, l + 1, start)
                      \o SubSeq(a, start + 2, Len(a)),
                      start + 1)

ListSortReverse(list) ==
  IF Len(list) < 2 THEN list
  ELSE LET a == Reverse(list)
           run == CountRun(a)
           b == IF run.descending
                THEN Reverse(SubSeq(a, 1, run.n)) \o SubSeq(a, run.n + 1, Len(a))
                ELSE a
       IN  Reverse(BinarySort(b, run.n))

RankBySimilarity(query_embedding, article_embeddings) ==
  LET scores == [i \in 1..Len(article_embeddings) |->
                   CosineSimilarity(query_embedding, article_embeddings[i][2])]
  IN  IF \E i \in 1..Len(scores) : scores[i].raised
      THEN scores[CHOOSE i \in 1..Len(scores) :
                    /\ scores[i].raised
                    /\ \A j \in 1..(i - 1) : ~scores[j].raised]
      ELSE Ret(ListSortReverse([i \in 1..Len(scores) |->
                                  <<article_embeddings[i][1],
                                    article_embeddings[i][2], scores[i].value>>]))


(***************************************************************************)
(* Retrieval primitives (the _tool_ methods).  ext is what the external    *)
(* collaborators do during this dispatch.                                  *)
(***************************************************************************)
semantic_top_k == 2

AuthorSearchLimit == 50

MetadataLimit == 100

MetadataShown == 50

EmbedderError == Raise("RuntimeError", <<"embedding provider failed">>)

StoreError == Raise("OperationFailure", <<"document store failed">>)

\* ... .strftime('%Y-%m-%d') if metadata.get('publication_date') else 'N/A'
DateOf(a) ==
  IF HasKey(a.metadata, "publication_date")
  THEN Strftime(a.metadata.publication_date)
  ELSE "N/A"

\* a.get(key, 'N/A')
GetOrNA(a, key) == IF HasKey(a, key) THEN a[key] ELSE "N/A"

\* the pairs _tool_search_by_content hands to the ranker
ArticlesWithEmbeddings(db) ==
  LET with == SelectSeq(GetAllArticles(db),
                        LAMBDA art : HasKey(art, "embedding")
                                       /\ Truthy(art.embedding))
  IN  [i \in 1..Len(with) |-> <<with[i], with[i].embedding>>]

\* what rank_by_similarity does within _tool_search_by_content, None when
\* the method returns or raises before it gets there
ContentRanking(params, db, ext) ==
  IF ~HasKey(params, "query") \/ ext # "ok" THEN None
  ELSE IF ~Truthy(ArticlesWithEmbeddings(db)) THEN None
  ELSE RankBySimilarity(EmbedText(params.query), ArticlesWithEmbeddings(db))

NoEmbeddingsPayload_EmptySuccess == [total_found |-> 0, articles |-> << >>]

\* the payload of a search that found no embedded article
NoEmbeddingsPayload ==
  [articles |-> << >>, message |-> <<"No articles with embeddings found">>]

ToolSearchByContent(params, db, ext) ==
  IF ~HasKey(params, "query") THEN Raise("KeyError", <<"'query'">>)
  ELSE IF ext = "embedder_error" THEN EmbedderError
  ELSE IF ext = "db_error" THEN StoreError
  ELSE
    LET query_embedding == EmbedText(params.query)
        all_articles == GetAllArticles(db)
        with == SelectSeq(all_articles,
                          LAMBDA art : HasKey(art, "embedding")
                                         /\ Truthy(art.embedding))
        articles_with_embeddings ==
          [i \in 1..Len(with) |-> <<with[i], with[i].embedding>>]
        ranked == RankBySimilarity(query_embedding, articles_with_embeddings)
        top == SelectSeq(FirstK(ranked.value, semantic_top_k),
                         LAMBDA r : AboveThreshold(r[3]))
        top_articles ==
          [i \in 1..Len(top) |->
             [article_id |-> top[i][1].article_id,
              title |-> top[i][1].metadata.title,
              author |-> top[i][1].metadata.author,
              date |-> DateOf(top[i][1]),
              url |-> GetOrNA(top[i][1], "url"),
              source |-> GetOrNA(top[i][1], "source"),
              similarity_score |-> Round3(top[i][3])]]
    IN  IF articles_with_embeddings = << >>
        THEN Ret(NoEmbeddingsPayload)
        ELSE IF ranked.raised THEN ranked
        ELSE Ret([total_found |-> Len(top_articles), articles |-> top_articles])

ToolSearchByAuthor(params, db, ext) ==
  IF ~HasKey(params, "author") THEN Raise("KeyError", <<"'author'">>)
  ELSE IF ext = "db_error" THEN StoreError
  ELSE
    LET articles ==
          FindByFilter(db, [k \in {"metadata.author"} |-> [regex |-> params.author]],
                       AuthorSearchLimit)
    IN  Ret([total_found |-> Len(articles),
             articles |->
               [i \in 1..Len(articles) |->
                  [article_id |-> articles[i].article_id,
                   title |-> articles[i].metadata.title,
                   author |-> articles[i].metadata.author,
                   date |-> DateOf(articles[i]),
                   url |-> GetOrNA(articles[i], "url")]]])

\* 'key' in params and params[key], for a list-valued or text-valued key
Given(params, key) == HasKey(params, key) /\ Truthy(params[key])

\* the same for a date string
GivenDate(params, key) == HasKey(params, key) /\ params[key] # ""

\* a date parameter that datetime.fromisoformat rejects
BadDate(params, key) == GivenDate(params, key) /\ params[key] \notin DOMAIN IsoDates

IsoError(params, key) ==
  Raise("ValueError", <<"Invalid isoformat string: ", params[key]>>)

\* the filter document built by _tool_search_by_metadata and
\* _tool_count_articles (only evaluated when no date is rejected)
BuildFilters(params) ==
  LET author == IF Given(params, "author")
                THEN [k \in {"metadata.author"} |-> [regex |-> params.author]]
                ELSE << >>
      gte == IF GivenDate(params, "date_from")
             THEN [gte |-> IsoDates[params.date_from]] ELSE << >>
      lte == IF GivenDate(params, "date_to")
             THEN [lte |-> IsoDates[params.date_to]] ELSE << >>
      date == IF GivenDate(params, "date_from") \/ GivenDate(params, "date_to")
              THEN [k \in {"metadata.publication_date"} |-> gte @@ lte]
              ELSE << >>
      cats == IF Given(params, "categories")
              THEN [k \in {"metadata.categories"} |-> params.categories]
              ELSE << >>
  IN  author @@ date @@ cats

ToolSearchByMetadata_TotalShown(params, db, ext) ==
  IF BadDate(params, "date_from") THEN IsoError(params, "date_from")
  ELSE IF BadDate(params, "date_to") THEN IsoError(params, "date_to")
  ELSE IF ext = "db_error" THEN StoreError
  ELSE
    LET articles == FindByFilter(db, BuildFilters(params), MetadataShown)
    IN  Ret([total_found |-> Len(articles),
             filters_used |-> params,
             articles |->
               [i \in 1..Len(articles) |->
                  [article_id |-> articles[i].article_id,
                   title |-> articles[i].metadata.title,
                   author |-> articles[i].metadata.author,
                   date |-> DateOf(articles[i])]]])

ToolSearchByMetadata(params, db, ext) ==
  IF BadDate(params, "date_from") THEN IsoError(params, "date_from")
  ELSE IF BadDate(params, "date_to") THEN IsoError(params, "date_to")
  ELSE IF ext = "db_error" THEN StoreError
  ELSE
    LET articles == FindByFilter(db, BuildFilters(params), MetadataLimit)
        shown == FirstK(articles, MetadataShown)
    IN  Ret([total_found |-> Len(articles),
             filters_used |-> params,
             articles |->
               [i \in 1..Len(shown) |->
                  [article_id |-> shown[i].article_id,
                   title |-> shown[i].metadata.title,
                   author |-> shown[i].metadata.author,
                   date |-> DateOf(shown[i])]]])

ToolCountArticles(params, db, ext) ==
  IF BadDate(params, "date_from") THEN IsoError(params, "date_from")
  ELSE IF BadDate(params, "date_to") THEN IsoError(params, "date_to")
  ELSE IF ext = "db_error" THEN StoreError
  ELSE Ret([count |-> CountByFilter(db, BuildFilters(params)),
            filters_used |-> params])

ToolGetArticleDetails_PerId(params, db, ext) ==
  IF ~HasKey(params, "article_ids") THEN Raise("KeyError", <<"'article_ids'">>)
  ELSE IF ext = "db_error" THEN StoreError
  ELSE IF \E k \in 1..Len(params.article_ids) :
            \A i \in 1..Len(db) : db[i].article_id # params.article_ids[k]
  THEN Raise("KeyError", <<"article not found">>)
  ELSE Ret([total_found |-> Len(params.article_ids), articles |-> << >>])

ToolGetArticleDetails(params, db, ext) ==
  IF ~HasKey(params, "article_ids") THEN Raise("KeyError", <<"'article_ids'">>)
  ELSE IF ext = "db_error" THEN StoreError
  ELSE
    LET articles ==
          FindByFilter(db, [k \in {"article_id"} |-> params.article_ids], 0)
    IN  Ret([total_found |-> Len(articles),
             articles |->
               [i \in 1..Len(articles) |->
                  [article_id |-> articles[i].article_id,
                   title |-> articles[i].metadata.title,
                   author |-> articles[i].metadata.author,
                   date |-> DateOf(articles[i]),
                   url |-> GetOrNA(articles[i], "url"),
                   source |-> GetOrNA(articles[i], "source"),
                   content |-> articles[i].content.full_text]]])

(***************************************************************************)
(* _execute_tool: dispatch by name; every Exception becomes {error: str}.  *)
(***************************************************************************)
\* a dispatch through a table of handlers: an unregistered name is a KeyError
CallHandler_Table(tool_name, parameters, db, ext) ==
  CASE tool_name = "search_by_content"   -> ToolSearchByContent(parameters, db, ext)
    [] tool_name = "search_by_author"    -> ToolSearchByAuthor(parameters, db, ext)
    [] tool_name = "search_by_metadata"  -> ToolSearchByMetadata(parameters, db, ext)
    [] tool_name = "count_articles"      -> ToolCountArticles(parameters, db, ext)
    [] tool_name = "get_article_details" -> ToolGetArticleDetails(parameters, db, ext)
    [] OTHER -> Raise("KeyError", <<"'", tool_name, "'">>)

\* the handler a tool name is dispatched to, before the except clause
CallHandler(tool_name, parameters, db, ext) ==
  CASE tool_name = "search_by_content"   -> ToolSearchByContent(parameters, db, ext)
    [] tool_name = "search_by_author"    -> ToolSearchByAuthor(parameters, db, ext)
    [] tool_name = "search_by_metadata"  -> ToolSearchByMetadata(parameters, db, ext)
    [] tool_name = "count_articles"      -> ToolCountArticles(parameters, db, ext)
    [] tool_name = "get_article_details" -> ToolGetArticleDetails(parameters, db, ext)
    [] OTHER -> Ret([error |-> <<"Unknown tool: ", tool_name>>])

\* does this dispatch enter one of the retrieval primitives
InvokesPrimitive(tool_name) ==
  tool_name \in {"search_by_content", "search_by_author", "search_by_metadata",
                 "count_articles", "get_article_details"}

\* a dispatch without the except clause
ExecuteTool_NoCatch(tool_name, parameters, db, ext) ==
  CallHandler(tool_name, parameters, db, ext)

ExecuteTool(tool_name, parameters, db, ext) ==
  LET r == CallHandler(tool_name, parameters, db, ext)
  IN  IF r.raised THEN Ret([error |-> r.str]) ELSE r


(***************************************************************************)
(* json.dumps(result, ensure_ascii=False, default=str): the text of a      *)
(* result payload, keys in insertion order.                                *)
(***************************************************************************)
JsonStr(str) == <<"\"", str, "\"">>

JsonText(text) == <<"\"">> \o text \o <<"\"">>

RECURSIVE JsonStrList(_, _)
JsonStrList(list, i) ==
  IF i > Len(list) THEN << >>
  ELSE (IF i > 1 THEN <<", ">> ELSE << >>) \o JsonStr(list[i])
       \o JsonStrList(list, i + 1)

JsonKey(d, key, value) ==
  IF HasKey(d, key) THEN <<key, ": ">> \o value \o <<"; ">> ELSE << >>

JsonParams(params) ==
  <<"{">>
  \o JsonKey(params, "query", JsonText(params.query))
  \o JsonKey(params, "author", JsonText(params.author))
  \o JsonKey(params, "date_from", JsonStr(params.date_from))
  \o JsonKey(params, "date_to", JsonStr(params.date_to))
  \o JsonKey(params, "categories",
             <<"[">> \o JsonStrList(params.categories, 1) \o <<"]">>)
  \o JsonKey(params, "article_ids",
             <<"[">> \o JsonStrList(params.article_ids, 1) \o <<"]">>)
  \o <<"}">>

JsonArticle(a) ==
  <<"{">>
  \o JsonKey(a, "article_id", JsonStr(a.article_id))
  \o JsonKey(a, "title", JsonStr(a.title))
  \o JsonKey(a, "author", JsonText(a.author))
  \o JsonKey(a, "date", JsonStr(a.date))
  \o JsonKey(a, "url", JsonStr(a.url))
  \o JsonKey(a, "source", JsonStr(a.source))
  \o JsonKey(a, "similarity_score", <<"0.001 * ", ToString(a.similarity_score)>>)
  \o JsonKey(a, "content", JsonStr(a.content))
  \o <<"}">>

RECURSIVE JsonArticles(_, _)
JsonArticles(list, i) ==
  IF i > Len(list) THEN << >>
  ELSE (IF i > 1 THEN <<", ">> ELSE << >>) \o JsonArticle(list[i])
       \o JsonArticles(list, i + 1)

JsonDumps(result) ==
  <<"{">>
  \o JsonKey(result, "error", JsonText(result.error))
  \o JsonKey(result, "total_found", <<ToString(result.total_found)>>)
  \o JsonKey(result, "count", <<ToString(result.count)>>)
  \o JsonKey(result, "filters_used", JsonParams(result.filters_used))
  \o JsonKey(result, "articles",
             <<"[">> \o JsonArticles(result.articles, 1) \o <<"]">>)
  \o JsonKey(result, "message", JsonText(result.message))
  \o <<"}">>


(***************************************************************************)
(* Conversation State Manager: compression of the persistent history.      *)
(***************************************************************************)
keep_recent == 6

ContentCut == 500

Turn(role, content) == [role |-> role, content |-> content]

\* the transcript lines of the old messages, "\n".join(...)
RECURSIVE HistoryText(_, _)
HistoryText(old_messages, i) ==
  IF i > Len(old_messages) THEN << >>
  ELSE LET msg == old_messages[i]
           rest == HistoryText(old_messages, i + 1)
       IN  IF msg.role \in {"user", "assistant"}
           THEN <<msg.role, ": ">> \o FirstK(msg.content, ContentCut)
                \o (IF rest = << >> THEN << >> ELSE <<"\n">> \o rest)
           ELSE rest

SummaryPrompt(old_messages) ==
  <<"Riassumi brevemente questa conversazione precedente in 2-3 frasi:\n\n">>
  \o HistoryText(old_messages, 1) \o <<"\n\nRiassunto conciso:">>

\* does _compress_history_with_summary reach self.llm.generate
SummaryCallsGenerate(history) == Len(history) > keep_recent

\* a compression that puts the summary turn after the turns it keeps
CompressHistoryWithSummary_SummaryLast(history, gen) ==
  IF Len(history) <= keep_recent THEN history
  ELSE IF gen.raised THEN LastK(history, keep_recent)
  ELSE LastK(history, keep_recent)
       \o <<Turn("system", <<"[Contesto conversazione precedente: ">>
                            \o gen.value \o <<"]">>)>>

\* a compression whose except clause leaves the history as it was
CompressHistoryWithSummary_FailureKeepsAll(history, gen) ==
  IF Len(history) <= keep_recent THEN history
  ELSE IF gen.raised THEN history
  ELSE <<Turn("system", <<"[Contesto conversazione precedente: ">>
                         \o gen.value \o <<"]">>)>>
       \o LastK(history, keep_recent)

\* _compress_history_with_summary; gen is what self.llm.generate does
\* a compression that carries the earlier summary turn along
CompressHistoryWithSummary_KeepsOldSummary(history, gen) ==
  IF Len(history) <= keep_recent THEN history
  ELSE LET recent_messages == LastK(history, keep_recent)
           earlier == SelectSeq(DropLastK(history, keep_recent),
                                LAMBDA turn : turn.role = "system")
       IN  IF gen.raised THEN recent_messages
           ELSE <<Turn("system", <<"[Contesto conversazione precedente: ">>
                                  \o gen.value \o <<"]">>)>>
                \o earlier \o recent_messages

CompressHistoryWithSummary_NoEarlyReturn(history, gen) ==
  LET recent_messages == LastK(history, Min(keep_recent, Len(history)))
  IN  IF gen.raised THEN recent_messages
      ELSE <<Turn("system", <<"[Contesto conversazione precedente: ">>
                             \o gen.value \o <<"]">>)>>
           \o recent_messages

CompressHistoryWithSummary(history, gen) ==
  IF Len(history) <= keep_recent THEN history
  ELSE LET old_messages == DropLastK(history, keep_recent)
           recent_messages == LastK(history, keep_recent)
       IN  IF gen.raised THEN recent_messages
           ELSE <<Turn("system", <<"[Contesto conversazione precedente: ">>
                                  \o gen.value \o <<"]">>)>>
                \o recent_messages

\* a truncation that keeps the oldest turns
TruncateHistory_Oldest(history, mht) == FirstK(history, mht * 2)

\* a truncation whose slice is not assigned back
TruncateHistory_NotAssigned(history, mht) == history

\* _truncate_history
TruncateHistory(history, mht) ==
  LET keep == mht * 2
  IN  IF Len(history) > keep THEN LastK(history, keep) ELSE history

\* the auto-compression step at the head of chat
\* a trigger that fires at the limit already
NeedsCompression_AtLimit(history, auto, mht) == auto /\ Len(history) >= mht * 2

NeedsCompression(history, auto, mht) == auto /\ Len(history) > mht * 2

\* the compression methods chat calls before it appends the user turn
CompressionCalls(history, auto, strategy, mht) ==
  IF ~NeedsCompression(history, auto, mht) THEN << >>
  ELSE IF strategy = "summary" THEN <<"_compress_history_with_summary">>
  ELSE IF strategy = "truncate" THEN <<"_truncate_history">>
  ELSE << >>

MaybeCompress(history, auto, strategy, mht, gen) ==
  IF NeedsCompression(history, auto, mht)
  THEN IF strategy = "summary" THEN CompressHistoryWithSummary(history, gen)
       ELSE IF strategy = "truncate" THEN TruncateHistory(history, mht)
       ELSE history
  ELSE history

\* outcomes of OpenAIClient/AnthropicClient/LocalLLMClient.generate
GenerateOutcomes ==
  {Ret(<<"riassunto">>), Raise("APIError", <<"completion provider failed">>)}


(***************************************************************************)
(* State.                                                                  *)
(***************************************************************************)
VARIABLES
  max_history_turns,     \* self.max_history_turns
  auto_compress,         \* self.auto_compress
  compression_strategy,  \* self.compression_strategy
  conversation_history,  \* self.conversation_history, the persistent session
  pc,                    \* position of the current run, "IDLE" before the first
  mode,                  \* "query" or "chat": the method that is running
  user_query,            \* argument of the run
  max_iterations,        \* argument of the run
  iteration,             \* the loop variable of for iteration in range(...)
  conversation,          \* the working context of the run
  tool_results,          \* tool calls executed in the run
  response,              \* the last provider response of the run
  tc,                    \* index in response.tool_calls of the next dispatch
  result,                \* the dict the run returned, None before
  raised,                \* what the run raised to its caller, "none" if nothing
  aborted_by,            \* "provider" or "tool": whose failure left the run
  provider_calls,        \* generate_with_tools calls issued in the run
  generate_calls,        \* llm.generate calls issued in the run
  compression_calls,     \* compression methods the run called, in order
  primitive_calls,       \* retrieval primitives entered in the run
  sent,                  \* messages of the last generate_with_tools call
  sent_log,              \* messages of every generate_with_tools call of the run
  received,              \* the responses generate_with_tools returned in the run
  requested,             \* tool calls the provider requested in the run
  dispatched,            \* tool calls handed to _execute_tool in the run
  working_turns,         \* turns the dispatches of the run produced
  ext_failed,            \* a collaborator failed inside a dispatch of the run
  context_at_start,      \* the working context the run started with
  history_at_entry,      \* the persistent history when the run was called
  runs,                  \* runs started so far
  lim,                   \* the limits of the exploration
  tool_in,               \* SpecTool: the arguments of _execute_tool
  tool_out,              \* SpecTool: what _execute_tool did
  summary,               \* what self.llm.generate did in the run, None if not called
  args,                  \* SpecCall: the method called on its own and its arguments
  outs,                  \* SpecCall: what that method returned or raised
  ranking,               \* what rank_by_similarity did within the primitive
                         \* called on its own, None if it was not invoked
  first                  \* SpecPair: what the chat run did that the query run
                         \* is compared with, None before it is over

configVars == <<max_history_turns, auto_compress, compression_strategy, lim>>

toolVars == <<tool_in, tool_out, args, outs, ranking, first>>

\* set when a run starts
argVars ==
  <<mode, user_query, max_iterations, context_at_start, history_at_entry,
    generate_calls, compression_calls, summary, runs>>

\* the locals of the loop and the record of what it did
loopVars ==
  <<iteration, conversation, tool_results, response, tc, provider_calls,
    primitive_calls, sent, sent_log, received, requested, dispatched,
    working_turns, ext_failed>>

endVars == <<pc, result, raised, aborted_by>>

vars == <<configVars, toolVars, argVars, loopVars, endVars, conversation_history>>

(***************************************************************************)
(* What the Completion Provider and the caller may do.                     *)
(***************************************************************************)
\* the tool calls a provider response may carry in a run: a well-formed
\* search and an unregistered name
CallShapes ==
  { [name |-> "search_by_content", parameters |-> [query |-> <<"guerra", "Ucraina">>]],
    [name |-> "cancella_tutto", parameters |-> << >>] }

\* the arguments _execute_tool is tried on alone
AllCallShapes ==
  CallShapes \cup
  { [name |-> "search_by_content", parameters |-> << >>],
    [name |-> "search_by_content", parameters |-> [query |-> <<"pace">>]],
    [name |-> "search_by_content", parameters |-> [author |-> <<"r">>]],
    [name |-> "search_by_author", parameters |-> [author |-> <<"r", "o", "s", "s", "i">>]],
    [name |-> "search_by_author", parameters |-> [author |-> <<"V", "e", "r", "d", "i">>]],
    [name |-> "search_by_author", parameters |-> << >>],
    [name |-> "search_by_metadata", parameters |-> << >>],
    [name |-> "search_by_metadata", parameters |-> [date_from |-> "ieri"]],
    [name |-> "search_by_metadata",
     parameters |-> [author |-> <<"O", "S", "S">>, date_from |-> "2024-02-01"]],
    [name |-> "search_by_metadata",
     parameters |-> [date_from |-> "2024-01-15", date_to |-> "2024/02/01"]],
    [name |-> "search_by_metadata",
     parameters |-> [date_from |-> "2024-01-15", date_to |-> "2024-02-01"]],
    [name |-> "search_by_metadata", parameters |-> [categories |-> <<"esteri">>]],
    [name |-> "count_articles", parameters |-> << >>],
    [name |-> "count_articles", parameters |-> [author |-> <<"b", "o">>]],
    [name |-> "count_articles", parameters |-> [date_to |-> "2024-02-01"]],
    [name |-> "count_articles", parameters |-> [date_to |-> "domani"]],
    [name |-> "get_article_details", parameters |-> [article_ids |-> <<"id1", "missing">>]],
    [name |-> "get_article_details", parameters |-> [article_ids |-> << >>]],
    [name |-> "get_article_details", parameters |-> << >>],
    [name |-> "", parameters |-> << >>] }

Contents == {<<"X">>, EmptyText}

\* the tool calls of response number n of a run: the provider gives each an id
WithIds(shapes, n) ==
  [k \in 1..Len(shapes) |->
     [id |-> <<"call", n, k>>, name |-> shapes[k].name,
      parameters |-> shapes[k].parameters]]

Batches(shapeSet, n) == UNION {[1..k -> shapeSet] : k \in 0..n}

\* what generate_with_tools may return: {content, tool_calls}
Responses(n, room) ==
  {[content |-> c, tool_calls |-> WithIds(b, n)] :
     c \in lim.contents, b \in Batches(lim.shapes, Min(lim.batch, room))}

\* how a generate_with_tools call can fail: the client exits the process
\* itself (OpenAIClient, e.message present), or an exception leaves the
\* client, one that has a message attribute or one that has none
ProviderFailures == {"SystemExit", "ExceptionWithMessage", "ExceptionNoMessage"}

\* the text of the n-th question of the caller
QueryText(n) == <<"domanda", ToString(n)>>

(***************************************************************************)
(* The orchestration loop: AgenticRAG.query and AgenticRAG.chat.           *)
(***************************************************************************)
\* the caller may call again: no run is going on and the process is alive
AtRest == pc \in {"IDLE", "DONE", "EXHAUSTED", "ABORTED"} /\ raised # "SystemExit"

\* the locals every run starts with
StartRun(m, q, md) ==
  /\ runs < lim.runs
  /\ runs' = runs + 1
  /\ mode' = md
  /\ user_query' = q
  /\ max_iterations' = m
  /\ iteration' = 0
  /\ tool_results' = << >>
  /\ response' = None
  /\ tc' = 0
  /\ result' = None
  /\ raised' = "none"
  /\ aborted_by' = "none"
  /\ provider_calls' = 0
  /\ primitive_calls' = 0
  /\ sent' = << >>
  /\ sent_log' = << >>
  /\ received' = << >>
  /\ requested' = << >>
  /\ dispatched' = << >>
  /\ working_turns' = << >>
  /\ ext_failed' = FALSE
  /\ pc' = "THINKING"
  /\ history_at_entry' = conversation_history

\* the working context of query
QueryContext_NoSystemPrompt(q) == <<Turn("user", q)>>

QueryContext(q) == <<Turn("system", SystemPrompt), Turn("user", q)>>

\* query, up to the head of its loop
Query(q, m) ==
  /\ AtRest
  /\ StartRun(m, q, "query")
  /\ conversation' = QueryContext(q)
  /\ context_at_start' = conversation'
  /\ generate_calls' = 0
  /\ compression_calls' = << >>
  /\ summary' = None
  /\ UNCHANGED <<conversation_history, configVars, toolVars>>

\* the persistent history chat leaves at the head of its loop: compressed
\* when needed, then the user turn
ChatHistory(history, q, gen) ==
  Append(MaybeCompress(history, auto_compress, compression_strategy,
                       max_history_turns, gen),
         Turn("user", q))

\* a working context that holds the last turn of the history twice
ChatContext_LastTwice(history) ==
  <<Turn("system", SystemPrompt)>> \o history \o LastK(history, 1)

\* the working context of chat
ChatContext(history) == <<Turn("system", SystemPrompt)>> \o history

ChatCallsGenerate(history) ==
  /\ NeedsCompression(history, auto_compress, max_history_turns)
  /\ compression_strategy = "summary"
  /\ SummaryCallsGenerate(history)

\* chat, up to the head of its loop
Chat(q, m, gen) ==
  /\ AtRest
  /\ StartRun(m, q, "chat")
  /\ conversation_history' = ChatHistory(conversation_history, q, gen)
  /\ conversation' = ChatContext(conversation_history')
  /\ context_at_start' = conversation'
  /\ generate_calls' = IF ChatCallsGenerate(conversation_history) THEN 1 ELSE 0
  /\ compression_calls' =
       CompressionCalls(conversation_history, auto_compress,
                        compression_strategy, max_history_turns)
  /\ summary' = gen
  /\ UNCHANGED <<configVars, toolVars>>

\* the turns one dispatched tool call adds to the working context
EchoTurn(resp) ==
  [role |-> "assistant", content |-> OrEmpty(resp.content),
   tool_calls |-> resp.tool_calls]

\* a tool turn that names the tool but not the call it answers
ToolTurn_NoCallId(tool_call, res) ==
  [role |-> "tool", tool_call_id |-> <<"call", 0, 0>>, name |-> tool_call.name,
   content |-> JsonDumps(res)]

ToolTurn(tool_call, res) ==
  [role |-> "tool", tool_call_id |-> tool_call.id, name |-> tool_call.name,
   content |-> JsonDumps(res)]

\* a dispatch that leaves the tool-result turn out of the working context
WorkingAppend_NoToolTurn(conv, resp, tool_call, res) == conv \o <<EchoTurn(resp)>>

WorkingAppend(conv, resp, tool_call, res) ==
  conv \o <<EchoTurn(resp), ToolTurn(tool_call, res)>>

ToolResult(tool_call, res) ==
  [tool |-> tool_call.name, parameters |-> tool_call.parameters, result |-> res]

\* a final answer that is returned but not recorded
CommitAnswer_NotRecorded(history, md, content) == history

\* what the final answer does to the persistent history
CommitAnswer(history, md, content) ==
  IF md = "chat" THEN Append(history, Turn("assistant", content)) ELSE history

\* a cap that leaves the persistent history alone
CommitFallback_Skip(history, md) == history

\* what reaching the cap does to the persistent history
CommitFallback(history, md) ==
  IF md = "chat" THEN Append(history, Turn("assistant", FallbackAnswer))
  ELSE history

\* a final answer that reports the loop variable itself
AnswerResult_ZeroBased(resp, results, it) ==
  [answer |-> resp.content, tool_calls |-> results, iterations |-> it]

\* the dict a final answer returns
AnswerResult(resp, results, it) ==
  [answer |-> resp.content, tool_calls |-> results, iterations |-> it + 1]

\* a cap that forgets the tool calls that were executed
FallbackResult_NoCalls(results, m) ==
  [answer |-> FallbackAnswer, tool_calls |-> << >>, iterations |-> m]

\* a cap that lists the latest tool call first
FallbackResult_Reversed(results, m) ==
  [answer |-> FallbackAnswer, tool_calls |-> Reverse(results), iterations |-> m]

\* the dict the cap returns
FallbackResult(results, m) ==
  [answer |-> FallbackAnswer, tool_calls |-> results, iterations |-> m]

\* a loop that makes one pass too many
LoopContinues_OneMore(it, m) == it <= m

\* for iteration in range(max_iterations): is there a next pass
LoopContinues(it, m) == it < m

\* generate_with_tools returns resp
ProviderRespond(resp) ==
  /\ pc = "THINKING"
  /\ LoopContinues(iteration, max_iterations)
  /\ provider_calls' = provider_calls + 1
  /\ sent' = conversation
  /\ sent_log' = Append(sent_log, conversation)
  /\ received' = Append(received, resp)
  /\ response' = resp
  /\ requested' = requested \o resp.tool_calls
  /\ IF resp.tool_calls = << >>
     THEN /\ conversation_history' =
               CommitAnswer(conversation_history, mode, resp.content)
          /\ result' = AnswerResult(resp, tool_results, iteration)
          /\ pc' = "DONE"
          /\ tc' = 0
     ELSE /\ tc' = 1
          /\ pc' = "DISPATCHING"
          /\ UNCHANGED <<conversation_history, result>>
  /\ UNCHANGED <<configVars, toolVars, argVars, iteration, conversation,
                 tool_results, primitive_calls, dispatched, working_turns,
                 ext_failed, raised, aborted_by>>

\* a chat that swallows the exception of the provider
Surfaces_Swallowed(md, f) ==
  IF f = "SystemExit" THEN "SystemExit"
  ELSE IF md = "chat" THEN "none"
  ELSE IF f = "ExceptionWithMessage" THEN "SystemExit"
  ELSE "Exception"

\* what leaves the run when generate_with_tools fails with f: chat lets it
\* through; query logs e.message and exits, or fails on the missing attribute
Surfaces(md, f) ==
  IF f = "SystemExit" THEN "SystemExit"
  ELSE IF md = "chat" THEN "Exception"
  ELSE IF f = "ExceptionWithMessage" THEN "SystemExit"
  ELSE "Exception"

\* generate_with_tools fails
ProviderFail(f) ==
  /\ pc = "THINKING"
  /\ LoopContinues(iteration, max_iterations)
  /\ provider_calls' = provider_calls + 1
  /\ sent' = conversation
  /\ sent_log' = Append(sent_log, conversation)
  /\ raised' = Surfaces(mode, f)
  /\ aborted_by' = "provider"
  /\ pc' = "ABORTED"
  /\ UNCHANGED <<configVars, toolVars, argVars, conversation_history, iteration,
                 conversation, tool_results, response, tc, primitive_calls,
                 received, requested, dispatched, working_turns, ext_failed,
                 result>>

\* exceptions that come from the Embedding Provider or the Document Store
ExternalExceptions == {EmbedderError.exc, StoreError.exc}

\* one pass of the body of for tool_call in response['tool_calls']
DispatchTool(ext) ==
  /\ pc = "DISPATCHING"
  /\ LET tool_call == response.tool_calls[tc]
         h == CallHandler(tool_call.name, tool_call.parameters, Corpus, ext)
         r == ExecuteTool(tool_call.name, tool_call.parameters, Corpus, ext)
         last == tc = Len(response.tool_calls)
     IN  /\ dispatched' = Append(dispatched, tool_call)
         /\ primitive_calls' =
              primitive_calls + (IF InvokesPrimitive(tool_call.name) THEN 1 ELSE 0)
         /\ ext_failed' = (ext_failed \/ (h.raised /\ h.exc \in ExternalExceptions))
         /\ IF r.raised
            THEN /\ raised' = "Exception"
                 /\ aborted_by' = "tool"
                 /\ pc' = "ABORTED"
                 /\ UNCHANGED <<tool_results, conversation, working_turns, tc,
                                iteration>>
            ELSE /\ tool_results' = Append(tool_results, ToolResult(tool_call, r.value))
                 /\ conversation' =
                      WorkingAppend(conversation, response, tool_call, r.value)
                 /\ working_turns' =
                      working_turns \o <<EchoTurn(response), ToolTurn(tool_call, r.value)>>
                 /\ tc' = IF last THEN 0 ELSE tc + 1
                 /\ iteration' = IF last THEN iteration + 1 ELSE iteration
                 /\ pc' = IF last THEN "THINKING" ELSE "DISPATCHING"
                 /\ UNCHANGED <<raised, aborted_by>>
  /\ UNCHANGED <<configVars, toolVars, argVars, conversation_history, response,
                 result, provider_calls, sent, sent_log, received, requested>>

\* the loop is over without a final answer
Exhaust ==
  /\ pc = "THINKING"
  /\ ~LoopContinues(iteration, max_iterations)
  /\ conversation_history' = CommitFallback(conversation_history, mode)
  /\ result' = FallbackResult(tool_results, max_iterations)
  /\ pc' = "EXHAUSTED"
  /\ UNCHANGED <<configVars, toolVars, argVars, loopVars, raised, aborted_by>>

\* a reset that keeps the summary of the earlier conversation
ResetHistory_KeepsSummary(history) ==
  SelectSeq(history, LAMBDA turn : turn.role = "system")

\* self.conversation_history = []
ResetHistory(history) == << >>

\* reset_chat: the caller is back at its prompt with an empty session
ResetChat ==
  /\ AtRest
  /\ conversation_history # << >>
  /\ conversation_history' = ResetHistory(conversation_history)
  /\ pc' = "IDLE"
  /\ UNCHANGED <<configVars, toolVars, argVars, loopVars, result, raised,
                 aborted_by>>

(***************************************************************************)
(* _execute_tool alone, on arguments drawn from AllCallShapes.             *)
(***************************************************************************)
ExecuteToolCall ==
  /\ tool_in # None
  /\ tool_out = None
  /\ tool_out' = ExecuteTool(tool_in.name, tool_in.parameters, Corpus, tool_in.ext)
  /\ UNCHANGED <<configVars, tool_in, args, outs, ranking, first, argVars, loopVars, endVars,
                 conversation_history>>

(***************************************************************************)
(* The compression methods called on their own, on a session of any size.  *)
(***************************************************************************)
\* the summary turn an earlier compression left
SummaryTurn(text) ==
  Turn("system", <<"[Contesto conversazione precedente: ">> \o text \o <<"]">>)

\* a session of n turns: user and assistant turns in alternation, after the
\* summary turn of an earlier compression when lead
MakeHistory(n, lead) ==
  [i \in 1..n |->
     IF lead /\ i = 1 THEN SummaryTurn(<<"prima">>)
     ELSE Turn(IF (i % 2 = 1) = ~lead THEN "user" ELSE "assistant",
               <<"t", ToString(i)>>)]

Called(op) == args # None /\ args.op = op

\* self._compress_history_with_summary()
CompressHistoryCall ==
  /\ Called("_compress_history_with_summary")
  /\ outs = None
  /\ conversation_history' =
       CompressHistoryWithSummary(conversation_history, args.gen)
  /\ generate_calls' = IF SummaryCallsGenerate(conversation_history) THEN 1 ELSE 0
  /\ summary' = IF SummaryCallsGenerate(conversation_history) THEN args.gen ELSE None
  /\ outs' = Ret(None)
  /\ UNCHANGED <<configVars, tool_in, tool_out, args, ranking, first, mode, user_query,
                 max_iterations, context_at_start, history_at_entry, runs,
                 compression_calls,
                 loopVars, endVars>>

\* self._truncate_history()
TruncateHistoryCall ==
  /\ Called("_truncate_history")
  /\ outs = None
  /\ conversation_history' = TruncateHistory(conversation_history, max_history_turns)
  /\ outs' = Ret(None)
  /\ UNCHANGED <<configVars, tool_in, tool_out, args, ranking, first, argVars, loopVars, endVars>>

(***************************************************************************)
(* get_chat_history and what its caller can do with the list it gets.  A   *)
(* Python list holds references: the element [ref |-> i] is the dict that  *)
(* is turn i of self.conversation_history, [own |-> d] is a dict of the    *)
(* caller.                                                                 *)
(***************************************************************************)
\* list.copy(): a new list of the same elements
ListCopy(list) == [i \in 1..Len(list) |-> [ref |-> i]]

\* self.conversation_history.copy()
GetChatHistoryCall ==
  /\ Called("get_chat_history")
  /\ outs = None
  /\ outs' = Ret(ListCopy(conversation_history))
  /\ UNCHANGED <<configVars, tool_in, tool_out, args, ranking, first, argVars, loopVars, endVars,
                 conversation_history>>

\* returned.append({...})
CallerAppend ==
  /\ Called("get_chat_history")
  /\ outs # None
  /\ Len(outs.value) <= MaxShown
  /\ outs' = Ret(Append(outs.value, [own |-> Turn("user", <<"aggiunto">>)]))
  /\ UNCHANGED <<configVars, tool_in, tool_out, args, ranking, first, argVars, loopVars, endVars,
                 conversation_history>>

\* del returned[k]
CallerRemove(k) ==
  /\ Called("get_chat_history")
  /\ outs # None
  /\ k \in 1..Len(outs.value)
  /\ outs' = Ret(SubSeq(outs.value, 1, k - 1)
                 \o SubSeq(outs.value, k + 1, Len(outs.value)))
  /\ UNCHANGED <<configVars, tool_in, tool_out, args, ranking, first, argVars, loopVars, endVars,
                 conversation_history>>

\* returned[k][key] = value, key one of role and content
CallerSetItem(k, key, value) ==
  /\ Called("get_chat_history")
  /\ outs # None
  /\ k \in 1..Len(outs.value)
  /\ IF HasKey(outs.value[k], "ref")
     THEN /\ conversation_history' =
               [conversation_history EXCEPT ![outs.value[k].ref][key] = value]
          /\ outs' = outs
     ELSE /\ outs' = Ret([outs.value EXCEPT ![k].own[key] = value])
          /\ UNCHANGED conversation_history
  /\ UNCHANGED <<configVars, tool_in, tool_out, args, ranking, first, argVars, loopVars, endVars>>

(***************************************************************************)
(* The Similarity Ranker and the retrieval primitives called on their own. *)
(***************************************************************************)
\* embeddings a stored article may carry: against <<1, 0, 0, 0>> they score
\* 0.5, 0.2, 0.9, 0.5 again, and nothing at all (zero norm)
Embeddings ==
  {<<1, 1, 1, 1>>, <<1, 2, 2, 4>>, <<9, 3, 3, 1>>, <<1, 1, -1, 1>>, <<0, 0, 0, 0>>}

\* the embedding of a query, one of zero norm included
QueryEmbeddings == {<<1, 0, 0, 0>>, <<0, 0, 0, 0>>}

\* article number i of a store (Article.to_dict), article_id unique
StoredArticle(i) ==
  [article_id |-> <<"id", i>>, url |-> <<"u", i>>, source |-> "s",
   metadata |-> [title |-> <<"T", i>>,
                 author |-> IF i % 4 = 0 THEN <<"V", "e", "r", "d", "i">>
                            ELSE <<"R", "o", "s", "s", "i">>,
                 publication_date |-> IF i % 2 = 0 THEN 20240115 ELSE 20240301,
                 categories |-> IF i % 3 = 0 THEN {"esteri"} ELSE {"politica"}],
   content |-> [full_text |-> <<"F", i>>]]

\* a store of n articles, none embedded yet
MakeStore(n) == [i \in 1..n |-> StoredArticle(i)]

\* the stores of at most n articles, each with one of Embeddings, with an
\* empty embedding or with none
EmbeddedStores(n) ==
  UNION {{[i \in 1..k |->
             IF f[i] = <<"none">> THEN StoredArticle(i)
             ELSE [embedding |-> f[i]] @@ StoredArticle(i)] :
            f \in [1..k -> Embeddings \cup {<< >>, <<"none">>}]} : k \in 0..n}

\* ArticleEmbedder.rank_by_similarity(query_embedding, article_embeddings)
RankBySimilarityCall ==
  /\ Called("rank_by_similarity")
  /\ outs = None
  /\ outs' = RankBySimilarity(args.query_embedding, args.article_embeddings)
  /\ UNCHANGED <<configVars, tool_in, tool_out, args, ranking, first, argVars, loopVars, endVars,
                 conversation_history>>

\* self._tool_search_by_content(params)
SearchByContentCall ==
  /\ Called("_tool_search_by_content")
  /\ outs = None
  /\ outs' = ToolSearchByContent(args.params, args.db, "ok")
  /\ ranking' = ContentRanking(args.params, args.db, "ok")
  /\ UNCHANGED <<configVars, tool_in, tool_out, args, first, argVars, loopVars, endVars,
                 conversation_history>>

\* self._tool_count_articles(params), then ...
CountArticlesCall ==
  /\ Called("_tool_count_articles")
  /\ outs = None
  /\ outs' = [count_articles |-> ToolCountArticles(args.params, args.db, "ok")]
  /\ UNCHANGED <<configVars, tool_in, tool_out, args, ranking, first, argVars, loopVars, endVars,
                 conversation_history>>

\* ... self._tool_search_by_metadata(params) with the same params
SearchByMetadataCall ==
  /\ Called("_tool_count_articles")
  /\ outs # None
  /\ ~HasKey(outs, "search_by_metadata")
  /\ outs' = outs @@ [search_by_metadata |->
                        ToolSearchByMetadata(args.params, args.db, "ok")]
  /\ UNCHANGED <<configVars, tool_in, tool_out, args, ranking, first, argVars, loopVars, endVars,
                 conversation_history>>

\* self._tool_get_article_details(params)
GetArticleDetailsCall ==
  /\ Called("_tool_get_article_details")
  /\ outs = None
  /\ outs' = ToolGetArticleDetails(args.params, args.db, "ok")
  /\ UNCHANGED <<configVars, tool_in, tool_out, args, ranking, first, argVars, loopVars, endVars,
                 conversation_history>>

(***************************************************************************)
(* Specifications.                                                         *)
(***************************************************************************)
\* no run has been made
InitLocals ==
  /\ pc = "IDLE"
  /\ mode = "none"
  /\ user_query = EmptyText
  /\ max_iterations = 0
  /\ iteration = 0
  /\ conversation = << >>
  /\ tool_results = << >>
  /\ response = None
  /\ tc = 0
  /\ result = None
  /\ raised = "none"
  /\ aborted_by = "none"
  /\ provider_calls = 0
  /\ generate_calls = 0
  /\ compression_calls = << >>
  /\ summary = None
  /\ primitive_calls = 0
  /\ sent = << >>
  /\ sent_log = << >>
  /\ received = << >>
  /\ requested = << >>
  /\ dispatched = << >>
  /\ working_turns = << >>
  /\ ext_failed = FALSE
  /\ context_at_start = << >>
  /\ runs = 0

\* a new AgenticRAG: the session is empty
InitRun ==
  /\ InitLocals
  /\ conversation_history = << >>
  /\ history_at_entry = << >>

\* nothing for the loop to explore
NoLoop ==
  [runs |-> 0, calls |-> 0, batch |-> 0, iters |-> {}, shapes |-> {},
   contents |-> {}, exts |-> {}, modes |-> {}]

\* one run in detail: both modes, batches of tool calls, failing collaborators
Init ==
  /\ InitRun
  /\ max_history_turns = 1
  /\ auto_compress = TRUE
  /\ compression_strategy = "truncate"
  /\ lim = [runs |-> MaxRuns, calls |-> MaxRunCalls, batch |-> MaxBatch,
            iters |-> 0..MaxIter, shapes |-> CallShapes, contents |-> Contents,
            exts |-> ExtOutcomes, modes |-> {"query", "chat"}]
  /\ tool_in = None
  /\ tool_out = None
  /\ args = None
  /\ outs = None
  /\ ranking = None
  /\ first = None

\* the session in the long run: many chat calls, every configuration, at
\* most one tool call in a run
InitSession ==
  /\ InitRun
  /\ max_history_turns \in 1..MaxTurnsCfg
  /\ auto_compress \in BOOLEAN
  /\ compression_strategy \in {"summary", "truncate"}
  /\ lim = [runs |-> MaxSessionRuns, calls |-> 1, batch |-> 1, iters |-> {1, 2},
            shapes |-> {c \in CallShapes : c.name = "search_by_content"},
            contents |-> {<<"X">>}, exts |-> {"ok"}, modes |-> {"chat"}]
  /\ tool_in = None
  /\ tool_out = None
  /\ args = None
  /\ outs = None
  /\ ranking = None
  /\ first = None

\* query and chat calls on one session, in any order
InitMixed ==
  /\ InitRun
  /\ max_history_turns = 1
  /\ auto_compress = TRUE
  /\ compression_strategy \in {"summary", "truncate"}
  /\ lim = [runs |-> MaxMixedRuns, calls |-> 1, batch |-> 1, iters |-> {1, 2},
            shapes |-> {c \in CallShapes : c.name = "search_by_content"},
            contents |-> {<<"X">>}, exts |-> {"ok"}, modes |-> {"query", "chat"}]
  /\ tool_in = None
  /\ tool_out = None
  /\ args = None
  /\ outs = None
  /\ ranking = None
  /\ first = None

InitTool ==
  /\ InitRun
  /\ max_history_turns = 1
  /\ auto_compress = TRUE
  /\ compression_strategy = "truncate"
  /\ lim = NoLoop
  /\ tool_in \in {[name |-> c.name, parameters |-> c.parameters, ext |-> e] :
                    c \in AllCallShapes, e \in ExtOutcomes}
  /\ tool_out = None
  /\ args = None
  /\ outs = None
  /\ ranking = None
  /\ first = None

Next ==
  \/ \E m \in lim.iters :
       /\ "query" \in lim.modes
       /\ Query(QueryText(runs + 1), m)
  \/ \E m \in lim.iters :
       \E gen \in IF ChatCallsGenerate(conversation_history)
                  THEN GenerateOutcomes ELSE {None} :
         Chat(QueryText(runs + 1), m, gen)
  \/ \E resp \in Responses(iteration + 1, lim.calls - Len(requested)) :
       ProviderRespond(resp)
  \/ \E f \in ProviderFailures : ProviderFail(f)
  \/ \E ext \in lim.exts : DispatchTool(ext)
  \/ Exhaust
  \/ ResetChat

\* the session: chat calls and reset_chat only
NextSession ==
  \/ \E m \in lim.iters :
       \E gen \in IF ChatCallsGenerate(conversation_history)
                  THEN GenerateOutcomes ELSE {None} :
         Chat(QueryText(runs + 1), m, gen)
  \/ \E resp \in Responses(iteration + 1, lim.calls - Len(requested)) :
       ProviderRespond(resp)
  \/ \E f \in ProviderFailures : ProviderFail(f)
  \/ \E ext \in lim.exts : DispatchTool(ext)
  \/ Exhaust
  \/ ResetChat

NextTool == ExecuteToolCall

\* a session of any size and one of the compression methods to call on it
InitCompression ==
  /\ InitLocals
  /\ \E n \in 0..MaxHistory, lead \in BOOLEAN :
       /\ lead => n > 0
       /\ conversation_history = MakeHistory(n, lead)
  /\ history_at_entry = conversation_history
  /\ max_history_turns \in 1..(MaxHistory \div 2)
  /\ auto_compress = TRUE
  /\ \/ /\ compression_strategy = "summary"
        /\ \E gen \in GenerateOutcomes :
             args = [op |-> "_compress_history_with_summary", gen |-> gen]
     \/ /\ compression_strategy = "truncate"
        /\ \A i \in 1..Len(conversation_history) :
             conversation_history[i].role # "system"
        /\ args = [op |-> "_truncate_history"]
  /\ outs = None
  /\ ranking = None
  /\ first = None
  /\ lim = NoLoop
  /\ tool_in = None
  /\ tool_out = None

\* a session after some chat calls, and a caller that asks for its history
InitGetChatHistory ==
  /\ InitLocals
  /\ \E n \in 0..MaxShown : conversation_history = MakeHistory(n, FALSE)
  /\ history_at_entry = conversation_history
  /\ max_history_turns = MaxHistory \div 2
  /\ auto_compress = TRUE
  /\ compression_strategy = "truncate"
  /\ args = [op |-> "get_chat_history"]
  /\ outs = None
  /\ ranking = None
  /\ first = None
  /\ lim = NoLoop
  /\ tool_in = None
  /\ tool_out = None

InitCall ==
  \/ InitCompression
  \/ InitGetChatHistory

NextCall ==
  \/ CompressHistoryCall
  \/ TruncateHistoryCall
  \/ GetChatHistoryCall
  \/ CallerAppend
  \/ \E k \in 1..(MaxShown + 1) : CallerRemove(k)
  \/ \E k \in 1..(MaxShown + 1) :
       \/ CallerSetItem(k, "content", <<"alterato">>)
       \/ CallerSetItem(k, "role", "system")

\* filters for the metadata primitives: each key given, given empty or absent
MetadataParams ==
  {a @@ f @@ u @@ c :
     a \in {<< >>, [author |-> <<"R", "O">>], [author |-> EmptyText]},
     f \in {<< >>, [date_from |-> "2024-02-01"], [date_from |-> "ieri"]},
     u \in {<< >>, [date_to |-> "2024-03-01"]},
     c \in {<< >>, [categories |-> <<"politica">>], [categories |-> <<"sport">>]}}

\* the ids asked of get_article_details: stored ones, one that is not
RequestedIds ==
  UNION {[1..k -> {<<"id", 1>>, <<"id", 2>>, <<"missing">>}] : k \in 0..2}

\* an AgenticRAG at rest and no session: only the call is of interest
InitIdle ==
  /\ InitRun
  /\ max_history_turns = 1
  /\ auto_compress = TRUE
  /\ compression_strategy = "truncate"
  /\ lim = NoLoop
  /\ tool_in = None
  /\ tool_out = None
  /\ outs = None
  /\ ranking = None
  /\ first = None

\* a ranking pass over at most MaxDocs embedded articles
InitRank ==
  /\ InitIdle
  /\ \E q \in QueryEmbeddings, k \in 0..MaxDocs :
       \E f \in [1..k -> Embeddings] :
         args = [op |-> "rank_by_similarity", query_embedding |-> q,
                 article_embeddings |-> [i \in 1..k |-> <<StoredArticle(i), f[i]>>]]

\* a content search over a store of at most MaxDocs articles
InitSearchByContent ==
  /\ InitIdle
  /\ \E db \in EmbeddedStores(MaxDocs) :
       args = [op |-> "_tool_search_by_content",
               params |-> [query |-> <<"guerra", "in", "Ucraina">>], db |-> db]

\* the metadata primitives over a store that can exceed the find limit
InitMetadata ==
  /\ InitIdle
  /\ \E n \in 0..MaxStore, params \in MetadataParams :
       args = [op |-> "_tool_count_articles", params |-> params,
               db |-> MakeStore(n)]

InitGetArticleDetails ==
  /\ InitIdle
  /\ \E n \in 0..MaxDocs, ids \in RequestedIds :
       args = [op |-> "_tool_get_article_details",
               params |-> [article_ids |-> ids], db |-> MakeStore(n)]

InitRetrieval ==
  \/ InitRank
  \/ InitSearchByContent
  \/ InitMetadata
  \/ InitGetArticleDetails

NextRetrieval ==
  \/ RankBySimilarityCall
  \/ SearchByContentCall
  \/ CountArticlesCall
  \/ SearchByMetadataCall
  \/ GetArticleDetailsCall

Spec == Init /\ [][Next]_vars

SpecSession == InitSession /\ [][NextSession]_vars

SpecMixed == InitMixed /\ [][Next]_vars

SpecTool == InitTool /\ [][NextTool]_vars

SpecCall == InitCall /\ [][NextCall]_vars

SpecRetrieval == InitRetrieval /\ [][NextRetrieval]_vars


(***************************************************************************)
(* Claims.                                                                 *)
(***************************************************************************)
\* the run in progress can take its next step when the provider answers
CanStep ==
  /\ pc = "THINKING" =>
       \/ ENABLED Exhaust
       \/ ENABLED ProviderRespond([content |-> EmptyText, tool_calls |-> << >>])
  /\ pc = "DISPATCHING" => tc \in 1..Len(response.tool_calls)

\* the tool calls recorded in results are exactly calls, in order
SameCalls(results, calls) ==
  /\ Len(results) = Len(calls)
  /\ \A k \in 1..Len(results) :
       /\ results[k].tool = calls[k].name
       /\ results[k].parameters = calls[k].parameters

\* C1: a run with cap max_iterations issues at most max_iterations
\* generate_with_tools calls, none at all when the cap is 0; as long as the
\* provider answers, the run is over (DONE after a response without tool
\* calls, EXHAUSTED after max_iterations calls) or it can take its next step,
\* and no tool dispatch ever makes it leave otherwise.
C1_BoundedRun ==
  /\ provider_calls <= max_iterations
  /\ max_iterations = 0 => provider_calls = 0
  /\ aborted_by # "tool"
  /\ CanStep
  /\ pc = "THINKING" => provider_calls = iteration
  /\ pc = "DISPATCHING" => provider_calls = iteration + 1
  /\ pc = "DONE" => response.tool_calls = << >>
  /\ pc = "EXHAUSTED" => provider_calls = max_iterations

C1_Witness ==
  /\ pc = "EXHAUSTED"
  /\ max_iterations = 2
  /\ provider_calls = 2
  /\ Len(dispatched) = 2

\* C2: when the i-th response of a run is the first without tool calls, the
\* run returns that response's content as answer, iterations = i and as
\* tool_calls exactly the calls requested and dispatched in iterations
\* 1..i-1; a first response without tool calls gives iterations 1 and no
\* tool calls.
C2_FinalAnswer ==
  pc = "DONE" =>
    /\ response.tool_calls = << >>
    /\ result.answer = response.content
    /\ result.iterations = provider_calls
    /\ iteration + 1 = provider_calls
    /\ dispatched = requested
    /\ SameCalls(result.tool_calls, dispatched)
    /\ provider_calls = 1 => result.tool_calls = << >> /\ result.iterations = 1

C2_Witness ==
  /\ pc = "DONE"
  /\ result.iterations = 2
  /\ Len(result.tool_calls) = 2
  /\ result.answer = <<"X">>

\* C3: when every one of the max_iterations responses carries a tool call,
\* the run returns the fixed fallback message, iterations = max_iterations
\* and every tool call that was executed, and raises nothing.
C3_Exhausted ==
  /\ pc = "THINKING" /\ iteration = max_iterations => ENABLED Exhaust
  /\ pc = "EXHAUSTED" =>
       /\ result.answer = FallbackAnswer
       /\ result.iterations = max_iterations
       /\ provider_calls = max_iterations
       /\ raised = "none"
       /\ dispatched = requested
       /\ SameCalls(result.tool_calls, dispatched)
       /\ \A k \in 1..Len(result.tool_calls) : HasKey(result.tool_calls[k], "result")

C3_Witness ==
  /\ pc = "EXHAUSTED"
  /\ max_iterations = 2
  /\ result.iterations = 2
  /\ Len(result.tool_calls) = 2
  /\ \A k \in 1..2 : requested[k].id = <<"call", k, 1>>
  /\ result.answer = FallbackAnswer

\* a chat run that the provider's failure ended
AbortedByProvider == pc = "ABORTED" /\ aborted_by = "provider"

\* the persistent history a chat run works on: the history at entry, after
\* the compression step (whatever the summarizer did) and with the user turn
IsEntryHistory(history) ==
  \E gen \in GenerateOutcomes :
    history = ChatHistory(history_at_entry, user_query, gen)

\* C4 as stated: a chat run that aborts on a provider failure or ends
\* EXHAUSTED leaves the persistent history exactly as it was before the run.
C4_AsStated ==
  mode = "chat" /\ (AbortedByProvider \/ pc = "EXHAUSTED") =>
    conversation_history = history_at_entry

\* C4 amended: no chat run commits its tool exchanges, and the final answer
\* is added only by a run that ends with it; but the user turn is committed
\* (after the compression step) as soon as the run starts, so an aborted run
\* leaves the earlier history plus the user turn, and a run that ends
\* EXHAUSTED leaves that plus an assistant turn holding the fallback message.
C4_Committed ==
  mode = "chat" =>
    /\ pc \in {"THINKING", "DISPATCHING"} \/ AbortedByProvider =>
         IsEntryHistory(conversation_history)
    /\ pc = "EXHAUSTED" =>
         /\ conversation_history # << >>
         /\ conversation_history[Len(conversation_history)] =
              Turn("assistant", FallbackAnswer)
         /\ IsEntryHistory(DropLastK(conversation_history, 1))
    /\ pc = "DONE" =>
         /\ conversation_history # << >>
         /\ conversation_history[Len(conversation_history)] =
              Turn("assistant", result.answer)
         /\ IsEntryHistory(DropLastK(conversation_history, 1))

C4_Witness ==
  /\ mode = "chat"
  /\ pc = "EXHAUSTED"
  /\ Len(tool_results) = 1
  /\ Len(history_at_entry) >= 2
  /\ Len(conversation_history) = Len(history_at_entry) + 2

\* a generate_with_tools call has just been made
JustCalled ==
  \/ pc = "DONE"
  \/ pc = "DISPATCHING" /\ tc = 1
  \/ AbortedByProvider

\* C5: the assistant echo turns and the tool-result turns of a chat run go to
\* the working context only: the persistent history never holds a turn with
\* role tool nor an assistant turn carrying tool_calls, and every provider
\* call of the run is sent the starting context followed by every such turn
\* produced so far.
C5_WorkingOnly ==
  /\ \A i \in 1..Len(conversation_history) :
       /\ conversation_history[i].role # "tool"
       /\ ~HasKey(conversation_history[i], "tool_calls")
  /\ mode = "chat" /\ JustCalled => sent = context_at_start \o working_turns

C5_Witness ==
  /\ mode = "chat"
  /\ pc = "DONE"
  /\ runs >= 2
  /\ provider_calls = 2
  /\ Len(working_turns) = 2
  /\ sent[Len(sent)].role = "tool"
  /\ Len(conversation_history) >= 4

\* C6: _execute_tool returns a value for every tool name and parameter
\* mapping and never raises: the result of the handler when the handler
\* returns, the payload {error: message} when anything in it fails.
C6_NeverRaises ==
  tool_out # None =>
    LET h == CallHandler(tool_in.name, tool_in.parameters, Corpus, tool_in.ext)
    IN  /\ ~tool_out.raised
        /\ h.raised => tool_out.value = [error |-> h.str]
        /\ ~h.raised => tool_out.value = h.value

C6_Witness ==
  /\ tool_out # None
  /\ tool_in.name = "search_by_metadata"
  /\ tool_in.ext = "ok"
  /\ tool_out.value = [error |-> <<"Invalid isoformat string: ", "ieri">>]

\* C7: a tool call with an unregistered name gives exactly
\* {error: "Unknown tool: <name>"} and enters no retrieval primitive; the call
\* is recorded with that result, the other calls of the response are
\* dispatched all the same and the run goes on to its next provider call.
C7_UnknownTool ==
  /\ \A k \in 1..Len(tool_results) :
       tool_results[k].tool \notin ToolNames =>
         tool_results[k].result =
           [error |-> <<"Unknown tool: ", tool_results[k].tool>>]
  /\ SameCalls(tool_results, dispatched)
  /\ primitive_calls =
       Cardinality({k \in 1..Len(dispatched) : dispatched[k].name \in ToolNames})
  /\ aborted_by # "tool"
  /\ pc = "THINKING" => dispatched = requested
  /\ pc = "DISPATCHING" =>
       dispatched = SubSeq(requested, 1,
                           Len(requested) - (Len(response.tool_calls) - tc + 1))

C7_Witness ==
  /\ provider_calls = 2
  /\ Len(tool_results) = 2
  /\ requested[1].id = <<"call", 1, 1>>
  /\ requested[2].id = <<"call", 1, 2>>
  /\ tool_results[1] = [tool |-> "cancella_tutto", parameters |-> << >>,
                        result |-> [error |-> <<"Unknown tool: ", "cancella_tutto">>]]
  /\ tool_results[2].tool = "search_by_content"
  /\ primitive_calls = 1

\* C8: a failure of generate_with_tools is not retried: the run is over with
\* the failure raised to its caller (an exception or the exit of the
\* process) and without a result, and from then on it makes no provider
\* call and no tool dispatch.
C8_NoRetry ==
  /\ [](AbortedByProvider =>
          /\ result = None
          /\ raised \in {"Exception", "SystemExit"}
          /\ ~ENABLED Exhaust)
  /\ [][AbortedByProvider /\ runs' = runs =>
          /\ provider_calls' = provider_calls
          /\ dispatched' = dispatched
          /\ tool_results' = tool_results
          /\ result' = None
          /\ raised' = raised]_vars

C8_Witness ==
  /\ AbortedByProvider
  /\ provider_calls = 2
  /\ Len(dispatched) = 2
  /\ mode = "query"
  /\ raised = "Exception"

\* the payloads a failing collaborator leaves as the result of a tool call
ExternalErrors == {[error |-> EmbedderError.str], [error |-> StoreError.str]}

C10_AsStated ==
  auto_compress => Len(conversation_history) <= 2 * max_history_turns + 2

\* the size the summary strategy cannot go below: the summary turn, the
\* keep_recent turns it keeps, the two turns of the run
SummaryFloor == keep_recent + 3

\* C10 amended: with auto-compression on, the persistent history never holds
\* more than 2 x max_history_turns + 2 turns under strategy truncate, and
\* never more than the larger of that and 9 turns under strategy summary
\* (which keeps 6 turns and a summary whatever max_history_turns is).
C10_Bounded ==
  auto_compress =>
    Len(conversation_history) <=
      IF compression_strategy = "summary"
           /\ 2 * max_history_turns + 2 < SummaryFloor
      THEN SummaryFloor
      ELSE 2 * max_history_turns + 2

C10_Witness ==
  /\ auto_compress
  /\ compression_strategy = "summary"
  /\ max_history_turns = 1
  /\ Len(conversation_history) = 9
  /\ conversation_history[1].role = "system"

\* C11: _compress_history_with_summary on a history of more than 6 turns,
\* when the summarization call succeeds, leaves one system turn holding the
\* summary followed by the last 6 turns of the old history, unchanged and in
\* their order (7 turns in all, whatever the size before), after exactly one
\* call of the summarizer.
C11_SummaryCompression ==
  /\ Called("_compress_history_with_summary")
  /\ outs # None
  /\ Len(history_at_entry) > 6
  /\ ~args.gen.raised
  => /\ Len(conversation_history) = 7
     /\ conversation_history[1] =
          Turn("system", <<"[Contesto conversazione precedente: ">>
                         \o args.gen.value \o <<"]">>)
     /\ \A k \in 1..6 :
          conversation_history[1 + k] =
            history_at_entry[Len(history_at_entry) - 6 + k]
     /\ generate_calls = 1

C11_Witness ==
  /\ Called("_compress_history_with_summary")
  /\ outs # None
  /\ Len(history_at_entry) = 24
  /\ max_history_turns = 10
  /\ Len(conversation_history) = 7
  /\ conversation_history[2] = history_at_entry[19]

\* C12: _truncate_history on a history of more than 2 x max_history_turns
\* turns keeps exactly the last 2 x max_history_turns turns, unchanged and in
\* their order; it leaves a shorter history as it is; it calls neither the
\* summarizer nor generate_with_tools.
C12_Truncate ==
  Called("_truncate_history") /\ outs # None =>
    LET n == Len(history_at_entry)
        keep == 2 * max_history_turns
    IN  /\ n > keep =>
             /\ Len(conversation_history) = keep
             /\ \A k \in 1..keep :
                  conversation_history[k] = history_at_entry[n - keep + k]
        /\ n <= keep => conversation_history = history_at_entry
        /\ generate_calls = 0
        /\ provider_calls = 0

C12_Witness ==
  /\ Called("_truncate_history")
  /\ outs # None
  /\ Len(history_at_entry) = 24
  /\ max_history_turns = 10
  /\ Len(conversation_history) = 20
  /\ conversation_history[1] = history_at_entry[5]

\* C13: when the summarization call of a chat call fails, the persistent
\* history the run works on is the last 6 turns of the old history (without
\* a summary turn) followed by the user turn; nothing is raised by it, and
\* the same chat call makes its provider call on the system prompt followed
\* by that history.
C13_SummaryFailure ==
  /\ mode = "chat"
  /\ pc # "IDLE"
  /\ summary # None
  /\ summary.raised
  => /\ generate_calls = 1
     /\ Len(history_at_entry) > 6
     /\ SubSeq(conversation_history, 1, 7) =
          SubSeq(history_at_entry, Len(history_at_entry) - 5, Len(history_at_entry))
          \o <<Turn("user", user_query)>>
     /\ context_at_start =
          <<Turn("system", SystemPrompt)>> \o SubSeq(conversation_history, 1, 7)
     /\ aborted_by # "provider" => raised = "none"
     /\ pc = "THINKING" /\ provider_calls = 0 =>
          ENABLED ProviderRespond([content |-> <<"X">>, tool_calls |-> << >>])
     /\ provider_calls > 0 => SubSeq(sent, 1, 8) = context_at_start

C13_Witness ==
  /\ mode = "chat"
  /\ pc = "DONE"
  /\ summary # None
  /\ summary.raised
  /\ Len(history_at_entry) = 8
  /\ Len(conversation_history) = 8
  /\ conversation_history[1] = history_at_entry[3]
  /\ provider_calls = 2

\* C14: whatever the caller does to the list get_chat_history returned
\* (appending turns, removing turns, changing the role or the content of a
\* turn of it), the history stored in the session stays as it was.
C14_AsStated ==
  Called("get_chat_history") /\ outs # None =>
    conversation_history = history_at_entry

\* C15: after reset_chat the persistent history is empty, whatever it held;
\* a chat run that starts on the empty history works on exactly the system
\* prompt followed by the new user turn, and that is what its first provider
\* call is sent.
C15_Reset ==
  /\ pc = "IDLE" => conversation_history = << >>
  /\ mode = "chat" /\ pc # "IDLE" /\ history_at_entry = << >> =>
       /\ context_at_start =
            <<Turn("system", SystemPrompt), Turn("user", user_query)>>
       /\ provider_calls = 1 => sent = context_at_start

C15_Witness ==
  /\ mode = "chat"
  /\ runs = 3
  /\ history_at_entry = << >>
  /\ provider_calls = 1
  /\ pc = "DISPATCHING"
  /\ sent = <<Turn("system", SystemPrompt), Turn("user", QueryText(3))>>

\* the score the ranker gives article i of the store in the call at hand
ScoreOf(i) ==
  CosineSimilarity(EmbedText(args.params.query), args.db[i].embedding).value

\* the articles of the store that are ranked and score above the threshold
Qualifying ==
  {i \in 1..Len(args.db) :
     /\ HasKey(args.db[i], "embedding")
     /\ Truthy(args.db[i].embedding)
     /\ AboveThreshold(ScoreOf(i))}

\* article j comes before article i in a stable descending order by score
ComesBefore(j, i) ==
  \/ ScoreGt(ScoreOf(j), ScoreOf(i))
  \/ ~ScoreGt(ScoreOf(i), ScoreOf(j)) /\ j < i

\* the first K qualifying articles in that order
FirstQualifying ==
  [r \in 1..Min(semantic_top_k, Cardinality(Qualifying)) |->
     CHOOSE i \in Qualifying :
       Cardinality({j \in Qualifying : ComesBefore(j, i)}) = r - 1]

\* C16: a search_by_content that returns a result returns the first
\* semantic_top_k of the articles scoring above the threshold, taken in
\* descending order of score, and total_found is the number of entries.
C16_AsStated ==
  /\ Called("_tool_search_by_content")
  /\ outs # None
  /\ ~outs.raised
  /\ HasKey(outs.value, "total_found")
  => /\ [r \in 1..Len(outs.value.articles) |-> outs.value.articles[r].article_id]
          = [r \in 1..Len(FirstQualifying) |-> args.db[FirstQualifying[r]].article_id]
     /\ outs.value.total_found = Len(outs.value.articles)

\* s1 == s2 on floats (false when either is nan)
ScoreEq(s1, s2) ==
  ~IsNaN(s1) /\ ~IsNaN(s2) /\ ~ScoreGt(s1, s2) /\ ~ScoreGt(s2, s1)

\* the input position of entry r of a ranking (articles are numbered by it)
InputIndex(ranked, r) == ranked[r][1].article_id[2]

\* C17: a rank_by_similarity that returns returns every input document once,
\* no document before one of greater score, and documents of equal score in
\* their input order.
C17_AsStated ==
  Called("rank_by_similarity") /\ outs # None /\ ~outs.raised =>
    LET ranked == outs.value
        n == Len(args.article_embeddings)
    IN  /\ Len(ranked) = n
        /\ \A i \in 1..n : \E r \in 1..n : InputIndex(ranked, r) = i
        /\ \A r \in 1..n :
             /\ ranked[r][2] = args.article_embeddings[InputIndex(ranked, r)][2]
             /\ ranked[r][3] =
                  CosineSimilarity(args.query_embedding, ranked[r][2]).value
        /\ \A r, s \in 1..n :
             r < s => /\ ~ScoreGt(ranked[s][3], ranked[r][3])
                      /\ ScoreEq(ranked[r][3], ranked[s][3]) =>
                           InputIndex(ranked, r) < InputIndex(ranked, s)

\* a vector of zero norm
ZeroNorm(v) == Dot(v, v) = 0

\* the query embedding of the ranking pass of the call at hand
RankedQuery ==
  IF Called("rank_by_similarity") THEN args.query_embedding
  ELSE EmbedText(args.params.query)

\* the document embeddings the pass computes a similarity for
RankedEmbeddings ==
  IF Called("rank_by_similarity")
  THEN {args.article_embeddings[i][2] : i \in 1..Len(args.article_embeddings)}
  ELSE IF Called("_tool_search_by_content")
  THEN {args.db[i].embedding :
          i \in {j \in 1..Len(args.db) :
                   HasKey(args.db[j], "embedding") /\ Truthy(args.db[j].embedding)}}
  ELSE {}

\* C18: a ranking pass that computes a similarity in which the query
\* embedding or the document embedding has zero norm ends in an error of the
\* ranker: it returns no ranking in which the document has a score (nan or
\* zero) or from which the document is dropped.
C18_AsStated ==
  /\ outs # None
  /\ \E v \in RankedEmbeddings : ZeroNorm(v) \/ ZeroNorm(RankedQuery)
  => outs.raised

\* the number of articles of the store that match the filters of the call
Matching ==
  Cardinality({i \in 1..Len(args.db) :
                 Matches(args.db[i], BuildFilters(args.params))})

\* both metadata primitives have returned a result for the same filters
BothReturned ==
  /\ Called("_tool_count_articles")
  /\ outs # None
  /\ HasKey(outs, "search_by_metadata")
  /\ ~outs.count_articles.raised
  /\ ~outs.search_by_metadata.raised

\* C19, as stated: when fewer articles match than the metadata cap, the
\* count of count_articles is the number of articles search_by_metadata
\* returns for the same filters.
C19_AsStated ==
  BothReturned /\ Matching < MetadataLimit =>
    outs.count_articles.value.count
      = Len(outs.search_by_metadata.value.articles)

\* C19, amended: when fewer articles match than the metadata cap, the count
\* of count_articles is the total_found of search_by_metadata for the same
\* filters, and it is the number of article entries of that payload when no
\* more articles match than a payload shows.
C19_CountIsTotalFound ==
  BothReturned /\ Matching < MetadataLimit =>
    /\ outs.count_articles.value.count
         = outs.search_by_metadata.value.total_found
    /\ Matching <= MetadataShown =>
         outs.count_articles.value.count
           = Len(outs.search_by_metadata.value.articles)

\* a filter by author matches more articles than a payload shows and fewer
\* than the cap: the count is the total_found, the payload is cut
C19_Witness ==
  /\ BothReturned
  /\ Given(args.params, "author")
  /\ Matching > MetadataShown
  /\ Matching < MetadataLimit
  /\ Matching < Len(args.db)
  /\ outs.count_articles.value.count = Matching
  /\ outs.search_by_metadata.value.total_found = Matching
  /\ Len(outs.search_by_metadata.value.articles) = MetadataShown

\* the ids of the call at hand that the store holds
RequestedAndStored ==
  SeqToSet(args.params.article_ids)
    \cap {args.db[i].article_id : i \in 1..Len(args.db)}

\* C20: get_article_details raises nothing for an id the store lacks; its
\* entries are the stored articles whose id is requested, each once and with
\* its stored text, and total_found is the number of requested ids stored.
C20_Details ==
  Called("_tool_get_article_details") /\ outs # None =>
    /\ ~outs.raised
    /\ LET articles == outs.value.articles
       IN  /\ {articles[r].article_id : r \in 1..Len(articles)} = RequestedAndStored
           /\ Len(articles) = Cardinality(RequestedAndStored)
           /\ \A r \in 1..Len(articles) :
                \E i \in 1..Len(args.db) :
                  /\ args.db[i].article_id = articles[r].article_id
                  /\ args.db[i].content.full_text = articles[r].content
                  /\ args.db[i].metadata.title = articles[r].title
           /\ outs.value.total_found = Cardinality(RequestedAndStored)

\* ['id1', 'missing'] asked of a store that holds id1 only: total_found 1
C20_Witness ==
  /\ Called("_tool_get_article_details")
  /\ outs # None
  /\ args.params.article_ids = << <<"id", 1>>, <<"missing">> >>
  /\ Len(args.db) = 1
  /\ args.db[1].article_id = <<"id", 1>>
  /\ ~outs.raised
  /\ outs.value.total_found = 1
  /\ outs.value.articles[1].article_id = <<"id", 1>>

\* some article of the store of the call at hand has a non-empty embedding
SomeEmbedded ==
  \E i \in 1..Len(args.db) :
    HasKey(args.db[i], "embedding") /\ Truthy(args.db[i].embedding)

\* C21: on a store with no non-empty embedding search_by_content returns
\* empty articles and a message and does not invoke the ranker; a search
\* that ranked returns total_found and articles and no message, so the two
\* payloads differ even when nothing exceeds the threshold.
C21_NoEmbeddings ==
  Called("_tool_search_by_content") /\ outs # None =>
    /\ ~outs.raised
    /\ ~SomeEmbedded =>
         /\ ranking = None
         /\ outs.value.articles = << >>
         /\ HasKey(outs.value, "message")
         /\ ~HasKey(outs.value, "total_found")
         /\ outs.value # [total_found |-> 0, articles |-> << >>]
    /\ SomeEmbedded =>
         /\ ranking # None
         /\ HasKey(outs.value, "total_found")
         /\ ~HasKey(outs.value, "message")

\* a store of two articles, one with an empty embedding and one with none
C21_Witness ==
  /\ Called("_tool_search_by_content")
  /\ outs # None
  /\ Len(args.db) = 2
  /\ HasKey(args.db[1], "embedding")
  /\ ~HasKey(args.db[2], "embedding")
  /\ ~SomeEmbedded
  /\ ranking = None
  /\ outs.value = NoEmbeddingsPayload

\* the tool-result turns of a working context, in order
ToolTurnsOf(conv) == SelectSeq(conv, LAMBDA turn : turn.role = "tool")

\* the tool calls the responses before the last one requested in the run
RequestedEarlier ==
  IF response = None \/ aborted_by = "provider" THEN Len(requested)
  ELSE Len(requested) - Len(response.tool_calls)

\* C22: in a run the tool-result turns of the working context answer, one
\* each and in order, the tool calls requested so far, with the id and the
\* name of the call; each follows the turn of the response that requested
\* its call; and every provider call is sent a context in which every call
\* requested before has its tool-result turn.
C22_Paired ==
  LET turns == ToolTurnsOf(conversation)
  IN  /\ Len(turns) <= Len(requested)
      /\ \A i \in 1..Len(turns) :
           /\ turns[i].tool_call_id = requested[i].id
           /\ turns[i].name = requested[i].name
      /\ \A i \in 1..Len(conversation) :
           conversation[i].role = "tool" =>
             /\ i > 1
             /\ conversation[i - 1].role = "assistant"
             /\ HasKey(conversation[i - 1], "tool_calls")
             /\ \E k \in 1..Len(conversation[i - 1].tool_calls) :
                  /\ conversation[i - 1].tool_calls[k].id =
                       conversation[i].tool_call_id
                  /\ conversation[i - 1].tool_calls[k].name = conversation[i].name
      /\ pc \in {"THINKING", "DONE", "EXHAUSTED"} => Len(turns) = Len(requested)
      /\ provider_calls > 0 => Len(ToolTurnsOf(sent)) = RequestedEarlier

\* the first response asked for two tool calls; the second provider call got
\* a context with the two tool-result turns
C22_Witness ==
  /\ pc = "DONE"
  /\ provider_calls = 2
  /\ Len(requested) = 2
  /\ requested[1].id = <<"call", 1, 1>>
  /\ requested[2].id = <<"call", 1, 2>>
  /\ Len(ToolTurnsOf(sent)) = 2
  /\ ToolTurnsOf(sent)[2].tool_call_id = <<"call", 1, 2>>

\* a chat run has started and the session was not reset since
InChatRun == mode = "chat" /\ pc # "IDLE"

\* the history to which the chat run at hand appended its user turn
BeforeUserTurn == SubSeq(context_at_start, 2, Len(context_at_start) - 1)

\* C23: a chat run calls a compression method exactly when auto_compress is
\* on and the history at entry is longer than 2 x max_history_turns (at
\* exactly that length nothing is compressed); it calls at most one, the one
\* of the configured strategy, on the history at entry, and appends the user
\* turn to what that leaves; the loop calls none and leaves the history as
\* it is.
C23_CompressionTiming ==
  InChatRun =>
    LET n == Len(history_at_entry)
    IN  /\ compression_calls # << >>
             <=> (auto_compress /\ n > 2 * max_history_turns)
        /\ Len(compression_calls) <= 1
        /\ context_at_start[Len(context_at_start)] = Turn("user", user_query)
        /\ compression_calls = << >> => BeforeUserTurn = history_at_entry
        /\ compression_calls = <<"_truncate_history">> =>
             /\ compression_strategy = "truncate"
             /\ BeforeUserTurn = LastK(history_at_entry, 2 * max_history_turns)
        /\ compression_calls = <<"_compress_history_with_summary">> =>
             /\ compression_strategy = "summary"
             /\ n <= keep_recent => BeforeUserTurn = history_at_entry
             /\ n > keep_recent =>
                  /\ LastK(BeforeUserTurn, keep_recent)
                       = LastK(history_at_entry, keep_recent)
                  /\ Len(BeforeUserTurn) \in {keep_recent, keep_recent + 1}
        /\ pc \in {"THINKING", "DISPATCHING", "ABORTED"} =>
             ChatContext(conversation_history) = context_at_start
        /\ generate_calls <= Len(compression_calls)

\* with max_history_turns = 1 the third chat call finds four turns, truncates
\* them to two and answers
C23_Witness ==
  /\ InChatRun
  /\ pc = "DONE"
  /\ max_history_turns = 1
  /\ Len(history_at_entry) = 4
  /\ compression_calls = <<"_truncate_history">>
  /\ Len(conversation_history) = 4
  /\ conversation_history[3] = Turn("user", user_query)

\* C24: the tool calls are dispatched in the order the responses list them,
\* one at a time: while response i is worked on, the calls dispatched are
\* all calls of earlier responses and the first ones of response i; a
\* provider call is issued only when every call requested so far has been
\* dispatched; no call is dispatched before its response arrived; and the
\* tool_calls of the result hold one entry per dispatched call, in dispatch
\* order.
C24_Sequential ==
  /\ Len(dispatched) <= Len(requested)
  /\ \A i \in 1..Len(dispatched) :
       /\ dispatched[i] = requested[i]
       /\ dispatched[i].id[2] <= provider_calls
       /\ \A j \in 1..(i - 1) :
            \/ dispatched[j].id[2] < dispatched[i].id[2]
            \/ /\ dispatched[j].id[2] = dispatched[i].id[2]
               /\ dispatched[j].id[3] < dispatched[i].id[3]
  /\ pc = "DISPATCHING" =>
       /\ Len(dispatched) = RequestedEarlier + tc - 1
       /\ \A k \in 1..(tc - 1) :
            dispatched[RequestedEarlier + k] = response.tool_calls[k]
       /\ provider_calls = iteration + 1
  /\ pc \in {"THINKING", "DONE", "EXHAUSTED"} => dispatched = requested
  /\ SameCalls(tool_results, dispatched)
  /\ pc \in {"DONE", "EXHAUSTED"} =>
       /\ SameCalls(result.tool_calls, dispatched)
       /\ result.tool_calls = tool_results

\* two iterations dispatched one call each, of different tools, and the run
\* ended at the cap with both in its result, in that order
C24_Witness ==
  /\ pc = "EXHAUSTED"
  /\ Len(dispatched) = 2
  /\ dispatched[1].id = <<"call", 1, 1>>
  /\ dispatched[2].id = <<"call", 2, 1>>
  /\ dispatched[1].name # dispatched[2].name
  /\ result.tool_calls[1].tool = dispatched[1].name
  /\ result.tool_calls[2].tool = dispatched[2].name

\* how many turns of a context equal the given turn
Occurrences(context, turn) ==
  Cardinality({i \in 1..Len(context) : context[i] = turn})

\* C25: the first provider call of a chat run is sent the system prompt
\* followed by the persistent history as it is then, compression done, whose
\* last turn is the new user turn, present once; the first provider call of
\* a query run is sent the system prompt and the user turn and nothing else,
\* whatever the persistent history holds, and a query run leaves that
\* history as it found it.
C25_FirstContext ==
  pc # "IDLE" =>
    /\ provider_calls = 1 => sent = context_at_start
    /\ mode = "chat" =>
         /\ context_at_start[1] = Turn("system", SystemPrompt)
         /\ context_at_start[Len(context_at_start)] = Turn("user", user_query)
         /\ Occurrences(context_at_start, Turn("user", user_query)) = 1
         /\ IsEntryHistory(SubSeq(context_at_start, 2, Len(context_at_start)))
         /\ pc \in {"THINKING", "DISPATCHING", "ABORTED"} =>
              SubSeq(context_at_start, 2, Len(context_at_start))
                = conversation_history
         /\ pc \in {"DONE", "EXHAUSTED"} =>
              SubSeq(context_at_start, 2, Len(context_at_start))
                = DropLastK(conversation_history, 1)
    /\ mode = "query" =>
         /\ context_at_start =
              <<Turn("system", SystemPrompt), Turn("user", user_query)>>
         /\ conversation_history = history_at_entry

\* a query run on a session that holds an earlier exchange: its provider
\* call got the two turns only and the session is as it was
C25_Witness ==
  /\ mode = "query"
  /\ pc = "DONE"
  /\ provider_calls = 1
  /\ Len(history_at_entry) >= 2
  /\ Len(sent) = 2
  /\ conversation_history = history_at_entry

\* search_by_metadata has been called with filters whose dates parse
SearchedByMetadata ==
  /\ Called("_tool_count_articles")
  /\ outs # None
  /\ HasKey(outs, "search_by_metadata")
  /\ ~BadDate(args.params, "date_from")
  /\ ~BadDate(args.params, "date_to")

\* C26, as stated: search_by_metadata returns min(n, cap) article entries
\* for n matching articles, cap being its one limit, and total_found is the
\* number of entries.
C26_AsStated ==
  SearchedByMetadata =>
    /\ ~outs.search_by_metadata.raised
    /\ LET payload == outs.search_by_metadata.value
       IN  /\ \/ Len(payload.articles) = Min(Matching, MetadataLimit)
              \/ Len(payload.articles) = Min(Matching, MetadataShown)
           /\ payload.total_found = Len(payload.articles)

\* C26, amended: search_by_metadata has two limits: for n matching articles
\* it returns min(n, 50) article entries and total_found is min(n, 100);
\* zero matches give a payload with total_found 0 and no entries, no error.
C26_TwoLimits ==
  SearchedByMetadata =>
    /\ ~outs.search_by_metadata.raised
    /\ LET payload == outs.search_by_metadata.value
       IN  /\ Len(payload.articles) = Min(Matching, MetadataShown)
           /\ payload.total_found = Min(Matching, MetadataLimit)
           /\ Matching = 0 =>
                /\ payload.total_found = 0
                /\ payload.articles = << >>

\* more articles match than the find limit: total_found is the limit and
\* the payload lists fewer
C26_Witness ==
  /\ SearchedByMetadata
  /\ Matching > MetadataLimit
  /\ outs.search_by_metadata.value.total_found = MetadataLimit
  /\ Len(outs.search_by_metadata.value.articles) = MetadataShown

\* C27: when a chat call has returned its result, a final answer or the
\* fallback of the cap, the persistent history ends with the user turn of
\* that call followed by an assistant turn holding the returned answer.
C27_LastTwoTurns ==
  mode = "chat" /\ pc \in {"DONE", "EXHAUSTED"} =>
    LET n == Len(conversation_history)
    IN  /\ n >= 2
        /\ result # None
        /\ conversation_history[n - 1] = Turn("user", user_query)
        /\ conversation_history[n] = Turn("assistant", result.answer)

\* a chat call on a session that was compressed at its entry ran into the
\* cap after a tool call and returned the fallback
C27_Witness ==
  /\ mode = "chat"
  /\ pc = "EXHAUSTED"
  /\ compression_calls # << >>
  /\ Len(dispatched) = 1
  /\ result.answer = FallbackAnswer
  /\ conversation_history[Len(conversation_history)] =
       Turn("assistant", FallbackAnswer)
  /\ conversation_history[Len(conversation_history) - 1] =
       Turn("user", user_query)

\* the positions of the turns with role system in a history
SystemTurns(history) == {i \in 1..Len(history) : history[i].role = "system"}

\* C28: whatever chat calls, resets and compressions a session went through
\* under its strategy, its persistent history holds at most one system turn,
\* and that one is its first turn and is a summary turn.
C28_OneSystemTurn ==
  /\ SystemTurns(conversation_history) \subseteq {1}
  /\ \A i \in SystemTurns(conversation_history) :
       /\ conversation_history[i].content[1]
            = "[Contesto conversazione precedente: "
       /\ compression_strategy = "summary"

\* a chat call found a session that began with a summary turn and summarized
\* it again: one summary turn, the new one, is left
C28_Witness ==
  /\ InChatRun
  /\ compression_calls = <<"_compress_history_with_summary">>
  /\ Len(history_at_entry) > keep_recent
  /\ history_at_entry[1].role = "system"
  /\ summary # None
  /\ ~summary.raised
  /\ SystemTurns(conversation_history) = {1}

(***************************************************************************)
(* The same question asked twice of one AgenticRAG: by chat on an empty    *)
(* session, then, the session reset, by query, with the provider giving    *)
(* the second run the responses it gave the first.                         *)
(***************************************************************************)

\* an empty session, two runs, and no failure of the provider or of a store
InitPair ==
  /\ InitRun
  /\ max_history_turns = 1
  /\ auto_compress = TRUE
  /\ compression_strategy = "truncate"
  /\ lim = [runs |-> 2, calls |-> MaxRunCalls, batch |-> MaxBatch,
            iters |-> 0..MaxIter, shapes |-> CallShapes, contents |-> Contents,
            exts |-> {"ok"}, modes |-> {"chat", "query"}]
  /\ tool_in = None
  /\ tool_out = None
  /\ args = None
  /\ outs = None
  /\ ranking = None
  /\ first = None

\* chat(q) on the empty session
ChatFirst ==
  /\ first = None
  /\ runs = 0
  /\ conversation_history = << >>
  /\ \E m \in lim.iters : Chat(QueryText(1), m, None)

\* the provider answers the chat run as it likes
FirstRespond ==
  /\ first = None
  /\ \E resp \in Responses(iteration + 1, lim.calls - Len(requested)) :
       ProviderRespond(resp)

\* the chat run is over: the caller keeps what it did and resets the session
ResetAfterChat ==
  /\ first = None
  /\ mode = "chat"
  /\ pc \in {"DONE", "EXHAUSTED"}
  /\ first' = [user_query |-> user_query, max_iterations |-> max_iterations,
               sent_log |-> sent_log, received |-> received,
               tool_results |-> tool_results, result |-> result,
               history |-> conversation_history]
  /\ conversation_history' = ResetHistory(conversation_history)
  /\ pc' = "IDLE"
  /\ UNCHANGED <<configVars, tool_in, tool_out, args, outs, ranking, argVars,
                 loopVars, result, raised, aborted_by>>

\* query(q) with the question and the iteration limit of the chat run
QuerySecond ==
  /\ first # None
  /\ mode = "chat"
  /\ Query(first.user_query, first.max_iterations)

\* the provider answers the query run's k-th call as it did the chat run's
ReplayRespond ==
  /\ first # None
  /\ mode = "query"
  /\ provider_calls < Len(first.received)
  /\ ProviderRespond(first.received[provider_calls + 1])

NextPair ==
  \/ ChatFirst
  \/ FirstRespond
  \/ \E ext \in lim.exts : DispatchTool(ext)
  \/ Exhaust
  \/ ResetAfterChat
  \/ QuerySecond
  \/ ReplayRespond

SpecPair == InitPair /\ [][NextPair]_vars

\* the query run that follows the chat run it is compared with
InSecondRun == first # None /\ mode = "query"

\* C29: query(q) and chat(q) on an empty session, given the same failure-free
\* provider and tool responses, send the provider the same messages at every
\* iteration and return the same answer, tool_calls and iterations; only chat
\* leaves turns in the persistent history.
C29_SameRun ==
  InSecondRun =>
    /\ Len(sent_log) <= Len(first.sent_log)
    /\ \A k \in 1..Len(sent_log) : sent_log[k] = first.sent_log[k]
    /\ Len(tool_results) <= Len(first.tool_results)
    /\ \A k \in 1..Len(tool_results) : tool_results[k] = first.tool_results[k]
    /\ (pc = "THINKING" /\ LoopContinues(iteration, max_iterations))
         => provider_calls < Len(first.received)
    /\ pc \in {"IDLE", "THINKING", "DISPATCHING", "DONE", "EXHAUSTED"}
    /\ pc \in {"DONE", "EXHAUSTED"} =>
         /\ sent_log = first.sent_log
         /\ result = first.result
         /\ conversation_history = << >>
         /\ first.history = <<Turn("user", user_query),
                              Turn("assistant", result.answer)>>

\* both runs over after a tool call and a final answer, with the same result
C29_Witness ==
  /\ InSecondRun
  /\ pc = "DONE"
  /\ Len(sent_log) = 2
  /\ Len(result.tool_calls) >= 1
  /\ result = first.result
  /\ sent_log = first.sent_log

\* C30: summary compression never lengthens the history: on 6 turns or fewer,
\* even when that is more than 2 * max_history_turns, it calls no provider and
\* leaves the history as it was; on more, it leaves at most 7 turns and no
\* more than there were.
C30_NeverLengthens ==
  (Called("_compress_history_with_summary") /\ outs # None) =>
    IF Len(history_at_entry) <= 6
    THEN /\ conversation_history = history_at_entry
         /\ generate_calls = 0
         /\ summary = None
    ELSE /\ Len(conversation_history) <= 7
         /\ Len(conversation_history) <= Len(history_at_entry)

\* the method ran on a history over the trigger of chat but of 6 turns or
\* fewer, and left it alone
C30_Witness ==
  /\ Called("_compress_history_with_summary")
  /\ outs # None
  /\ Len(history_at_entry) > max_history_turns * 2
  /\ Len(history_at_entry) <= 6
  /\ conversation_history = history_at_entry
  /\ generate_calls = 0

=============================================================================
